---------------------------- MODULE Spec2Model ----------------------------
(***************************************************************************)
(* Motion control of the TurtleBot backend: the TurtleBotController of     *)
(* src/test-windows-camera.js (velocity state, the 10 Hz publisher         *)
(* interval, the stop burst, the pattern generators and the boot-time      *)
(* backend selection), with the Node.js timers made explicit.  Around it,  *)
(* each under a specification of its own: who may command the robot        *)
(* (SpecAccess), the role routes (SpecRoles), the camera stream            *)
(* (SpecWebcam), the two-factor backup codes (SpecTwoFactor), the          *)
(* simulated odometry (SpecOdometry), the email OTP (SpecOtp), logout and  *)
(* sessions (SpecSession) and the OpenCV frame stream (SpecOpencv).        *)
(*                                                                         *)
(* Numbers.  A JavaScript number is a record [k, v]: k = "fin" with the    *)
(* value v in thousandths (0.2 m/s is Fin(200)), k = "inf" with v the      *)
(* sign, or k = "nan".  -0 is Fin(0): -0 === 0 and (-0 || 0) is 0, so the  *)
(* code cannot tell them apart.  A JavaScript value is a record [k, v, s]  *)
(* that also covers undefined, null and strings (s, a sequence of          *)
(* characters; the character "I" stands for the text "Infinity").          *)
(*                                                                         *)
(* Time.  Every pending setTimeout/setInterval is kept with the            *)
(* milliseconds left until it is due.  Elapse lets time pass up to the     *)
(* next due timer; a due timer fires before more time passes.              *)
(*                                                                         *)
(* Callers.  The HTTP and socket handlers call the controller's methods.   *)
(* The model's client makes its calls, any number of them in a row, at     *)
(* instants ClientPeriodMs apart, up to MaxCalls calls in all.             *)
(*                                                                         *)
(* Backend selection.  initializeROS is followed from one await to the     *)
(* next; what the probes, the module loader, rosnodejs.initNode and        *)
(* nh.advertise answer is the environment's choice.  The telemetry         *)
(* intervals of startSimulation read the motion state and write none of    *)
(* it; the odometry interval runs in SpecOdometry, the battery and laser   *)
(* intervals are left out.  src/index.js holds older versions of the       *)
(* controller; it declares its top-level constants twice and cannot be     *)
(* loaded, so it is not modelled.                                          *)
(***************************************************************************)
EXTENDS Integers, Sequences, FiniteSets, TLC

(***************************************************************************)
(* Bounds of the model.                                                    *)
(***************************************************************************)
MaxCalls == 2
MaxStopBursts == 2
MaxStrLen == 2
MaxSilence == 3

(***************************************************************************)
(* JavaScript values.                                                      *)
(***************************************************************************)
Unit == 10 * 10 * 10

Fin(n) == [k |-> "fin", v |-> n, s |-> << >>]

NaN == [k |-> "nan", v |-> 0, s |-> << >>]

Inf(sign) == [k |-> "inf", v |-> sign, s |-> << >>]

Undefined == [k |-> "undefined", v |-> 0, s |-> << >>]

JsNull == [k |-> "null", v |-> 0, s |-> << >>]

Str(chars) == [k |-> "str", v |-> 0, s |-> chars]

IsFinite(x) == x.k = "fin"

IsNumber(x) == x.k \in {"fin", "nan", "inf"}

Digits == {"0", "1", "2"}

DigitVal(c) == CASE c = "0" -> 0 [] c = "1" -> 1 [] c = "2" -> 2

Chars == Digits \cup {" ", "-", "x", "I"}

RECURSIVE TrimLeft(_)
TrimLeft(s) ==
  IF s # << >> /\ Head(s) = " " THEN TrimLeft(Tail(s)) ELSE s

RECURSIVE DigitPrefix(_, _)
\* The value of the longest run of digits at the head of s, continuing acc.
DigitPrefix(s, acc) ==
  IF s # << >> /\ Head(s) \in Digits
  THEN DigitPrefix(Tail(s), 10 * acc + DigitVal(Head(s)))
  ELSE acc

\* StrDecimalLiteral without its sign: "Infinity", or digits; anything after
\* the literal is ignored; no literal at all is NaN.
ParseUnsigned(s, sign) ==
  IF s = << >> THEN NaN
  ELSE IF Head(s) = "I" THEN Inf(sign)
  ELSE IF Head(s) \in Digits THEN Fin(sign * DigitPrefix(s, 0) * Unit)
  ELSE NaN

ParseString(s) ==
  LET t == TrimLeft(s)
  IN  IF t # << >> /\ Head(t) = "-" THEN ParseUnsigned(Tail(t), -1)
      ELSE ParseUnsigned(t, 1)

\* parseFloat(x): ToString(x), then the longest numeric prefix.
parseFloat(x) ==
  CASE x.k = "str" -> ParseString(x.s)
    [] x.k = "fin" -> x
    [] x.k = "inf" -> x
    [] OTHER -> NaN

\* x || 0 on a number: 0, -0 and NaN are falsy.
OrZero(x) ==
  IF x.k = "nan" \/ (x.k = "fin" /\ x.v = 0) THEN Fin(0) ELSE x

\* A parameter default (p = d): taken only for undefined.
Default(x, d) == IF x.k = "undefined" THEN d ELSE x

RECURSIVE TrimRight(_)
TrimRight(s) ==
  IF s # << >> /\ s[Len(s)] = " " THEN TrimRight(SubSeq(s, 1, Len(s) - 1)) ELSE s

AllDigits(s) == s # << >> /\ \A i \in 1..Len(s) : s[i] \in Digits

\* ToNumber(x): unlike parseFloat, the whole trimmed string must be a literal,
\* the empty string is 0 and null is 0.
ToNumber(x) ==
  LET t == TrimRight(TrimLeft(x.s))
      u == IF t # << >> /\ Head(t) = "-" THEN Tail(t) ELSE t
      sign == IF t # << >> /\ Head(t) = "-" THEN -1 ELSE 1
  IN  CASE x.k = "str" ->
             (IF t = << >> THEN Fin(0)
              ELSE IF u = <<"I">> THEN Inf(sign)
              ELSE IF AllDigits(u) THEN Fin(sign * DigitPrefix(u, 0) * Unit)
              ELSE NaN)
        [] x.k = "null" -> Fin(0)
        [] x.k = "undefined" -> NaN
        [] OTHER -> x

\* Unary minus: ToNumber, then negate.
Neg(x) ==
  LET n == ToNumber(x)
  IN  CASE n.k = "fin" -> Fin(-(n.v))
        [] n.k = "inf" -> Inf(-(n.v))
        [] OTHER -> NaN

\* x !== 0
NotZero(x) == ~(x.k = "fin" /\ x.v = 0)

(***************************************************************************)
(* The controller's state.                                                 *)
(***************************************************************************)
VARIABLES
  rosMasterUri,      \* process.env.ROS_MASTER_URI: "configured", or "default" when forced
  initPc,            \* where initializeROS is: the await it is at, then "ros" or "sim"
  waitTimer,         \* the 3000 ms wait for node registration: ms until due, -1 when not pending
  batteryData,       \* this.batteryData is not null
  odomData,          \* this.odomData is not null
  isConnected,       \* this.isConnected
  rosMode,           \* this.rosMode
  cmdVelPublisher,   \* this.cmdVelPublisher is set
  currentTwist,      \* this.currentTwist
  isMoving,          \* this.isMoving
  publishInterval,   \* this.publishInterval: 0 for null, else an index of pubIntervals
  pubIntervals,      \* the live publisher intervals: ms until each one's next tick
  stopTimers,        \* the pending timeouts of stop()'s burst: ms until each is due
  testTimer,         \* the boot test publish: ms until due, -1 when not pending
  jobs,              \* the pattern generators that still hold a pending timer
  calls,             \* external calls made so far
  clientDue,         \* ms until the client may call again, -1 once it has left
  lastCall,          \* the external call that has just returned, "none" after anything else
  result,            \* what that call returned
  stopsInRow,        \* stop() calls in a row with nothing in between (up to 2)
  lastExt,           \* the last accepted external command and the twist it asked for
  silence,           \* ms for which isMoving has been true with no publisher tick
  burst,             \* transport publishes since the last call, if that was stop() (capped)
  burstMoving,       \* one of them carried a non-zero twist
  sendFailed,        \* the publish of the last publisher tick since the last call threw
  lastDone,          \* the pattern job that ended last since the last call, and
                     \* whether it emitted pattern_movement_complete
  emitted,           \* the events the call that has just returned sent with io.emit
  request,           \* the HTTP request or socket message the server is handling
  customClaims,      \* Firebase custom claims: the role of each user
  roleCall,          \* the last call of setUserRole, and the request that made it
  cameraProcess,     \* routes/webcam.js cameraProcess: 0 for null, else an index of ffmpeg
  isStreaming,       \* routes/webcam.js isStreaming
  ffmpeg,            \* the FFmpeg processes spawned so far
  responses,         \* the responses of the GET /stream requests, one per viewer
  backupCodes,       \* user_totp_secrets/<email>.backupCodes of one user
  verifies,          \* the calls of verifyBackupCode for that user, each at its await
  odomPosition,      \* this.odomData.position: x and y, in units of 1 / (10 * Unit)
  odomVelocity,      \* this.odomData.linear_velocity and angular_velocity, as one twist
  odomTicks,         \* runs of the odometry interval of startSimulation so far
  otps,              \* otps/<email>: whether the document exists, its attempts, whether it has expired
  emailVerified,     \* user_sessions/<email>.emailVerified
  otpCalls,          \* the POST /verify-otp requests of that user, each at its await
  wrongCompared,     \* wrong codes compared with the stored OTP so far
  loggedOut,         \* a logout of the user has reset the session and no OTP was verified since
  cvInitialized,     \* OpenCVWebcamService isInitialized: "pending" until initializeCamera has run
  streamingClients,  \* OpenCVWebcamService streamingClients: the frameCount of each subscribed socket, -1 for none
  cvStreaming,       \* OpenCVWebcamService isStreaming
  streamTimer,       \* the timeout of scheduleNextFrame is pending
  captures           \* frames read by the stream loop so far

ctl == <<currentTwist, isMoving, publishInterval, pubIntervals, stopTimers>>

boot == <<rosMasterUri, initPc, waitTimer, batteryData, odomData, isConnected, rosMode,
          cmdVelPublisher, testTimer>>

hist == <<lastCall, result, stopsInRow, lastExt, silence, burst, burstMoving, sendFailed,
          lastDone, emitted>>

\* What the controller's methods and timers leave alone.
services == <<request, customClaims, roleCall, cameraProcess, isStreaming, ffmpeg,
              responses, backupCodes, verifies,
          odomPosition, odomVelocity, odomTicks,
          otps, emailVerified, otpCalls, wrongCompared,
          loggedOut,
          cvInitialized, streamingClients, cvStreaming, streamTimer, captures>>

odometry == <<odomPosition, odomVelocity, odomTicks>>

emailOtp == <<otps, emailVerified, otpCalls, wrongCompared>>

session == <<loggedOut>>

opencv == <<cvInitialized, streamingClients, cvStreaming, streamTimer, captures>>

twoFactor == <<backupCodes, verifies>>

webcam == <<cameraProcess, isStreaming, ffmpeg, responses>>

roles == <<customClaims, roleCall>>

vars == <<rosMasterUri, initPc, waitTimer, batteryData, odomData, isConnected, rosMode, cmdVelPublisher, currentTwist, isMoving,
          publishInterval, pubIntervals, stopTimers, testTimer, jobs, calls, clientDue,
          lastCall, result, stopsInRow, lastExt, silence, burst, burstMoving, sendFailed,
          lastDone, emitted, request, customClaims, roleCall, cameraProcess, isStreaming, ffmpeg,
          responses, backupCodes, verifies,
          odomPosition, odomVelocity, odomTicks,
          otps, emailVerified, otpCalls, wrongCompared,
          loggedOut,
          cvInitialized, streamingClients, cvStreaming, streamTimer, captures>>

\* The controller with its timers and its caller.
motion == <<boot, ctl, jobs, calls, clientDue, hist>>


publishRate == 10

PublishPeriodMs == Unit \div publishRate

StopAttempts == 5

StopGapMs == 10

TestPublishDelayMs == 2000

Twist(lx, ly, lz, ax, ay, az) ==
  [lx |-> lx, ly |-> ly, lz |-> lz, ax |-> ax, ay |-> ay, az |-> az]

ZeroTwist == Twist(Fin(0), Fin(0), Fin(0), Fin(0), Fin(0), Fin(0))

Components == {"lx", "ly", "lz", "ax", "ay", "az"}

\* setTimeout/setInterval: a delay under 1 ms is 1 ms.
TimerDelay(ms) == IF ms < 1 THEN 1 ELSE ms

Min(a, b) == IF a < b THEN a ELSE b

RemoveAt(s, i) == SubSeq(s, 1, i - 1) \o SubSeq(s, i + 1, Len(s))

RECURSIVE InsertSorted(_, _)
\* Timers that differ only in their due time are kept in due order.
InsertSorted(s, r) ==
  IF s = << >> THEN <<r>>
  ELSE IF r < Head(s) THEN <<r>> \o s
  ELSE <<Head(s)>> \o InsertSorted(Tail(s), r)

RECURSIVE InsertAll(_, _)
InsertAll(s, rs) ==
  IF rs = << >> THEN s ELSE InsertAll(InsertSorted(s, Head(rs)), Tail(rs))

(***************************************************************************)
(* startContinuousPublishing, publishTwist and stop: the parts of an       *)
(* action that the handlers below share.  Each sets the variables of ctl.  *)
(***************************************************************************)
\* clearInterval(this.publishInterval) if set, then a new interval.
startContinuousPublishing ==
  LET kept == IF publishInterval # 0 THEN RemoveAt(pubIntervals, publishInterval)
              ELSE pubIntervals
  IN  /\ pubIntervals' = Append(kept, TimerDelay(PublishPeriodMs))
      /\ publishInterval' = Len(kept) + 1

ParsedTwist(lx, ly, lz, ax, ay, az) ==
  Twist(OrZero(parseFloat(Default(lx, Fin(0)))),
        OrZero(parseFloat(Default(ly, Fin(0)))),
        OrZero(parseFloat(Default(lz, Fin(0)))),
        OrZero(parseFloat(Default(ax, Fin(0)))),
        OrZero(parseFloat(Default(ay, Fin(0)))),
        OrZero(parseFloat(Default(az, Fin(0)))))

TwistMoving(t) == \E c \in Components : NotZero(t[c])

\* publishTwist without its early return.
publishTwistUnguarded(lx, ly, lz, ax, ay, az) ==
  /\ currentTwist' = ParsedTwist(lx, ly, lz, ax, ay, az)
  /\ isMoving' = TwistMoving(ParsedTwist(lx, ly, lz, ax, ay, az))
  /\ startContinuousPublishing
  /\ UNCHANGED stopTimers

publishTwist(lx, ly, lz, ax, ay, az) ==
  IF ~isConnected
  THEN UNCHANGED ctl
  ELSE /\ currentTwist' = ParsedTwist(lx, ly, lz, ax, ay, az)
       /\ isMoving' = TwistMoving(ParsedTwist(lx, ly, lz, ax, ay, az))
       /\ startContinuousPublishing
       /\ UNCHANGED stopTimers

\* The value publishTwist returns.
publishTwistResult == isConnected

\* The delays of the burst's timeouts, i * 10 ms for i = 0..4.
BurstDelays == [i \in 1..StopAttempts |-> TimerDelay((i - 1) * StopGapMs)]

\* stop that leaves isMoving as it is.
stopKeepsMoving ==
  /\ pubIntervals' = IF publishInterval # 0 THEN RemoveAt(pubIntervals, publishInterval)
                     ELSE pubIntervals
  /\ publishInterval' = 0
  /\ currentTwist' = ZeroTwist
  /\ UNCHANGED isMoving
  /\ stopTimers' = IF rosMode /\ cmdVelPublisher
                   THEN InsertAll(stopTimers, BurstDelays)
                   ELSE stopTimers

stop ==
  /\ pubIntervals' = IF publishInterval # 0 THEN RemoveAt(pubIntervals, publishInterval)
                     ELSE pubIntervals
  /\ publishInterval' = 0
  /\ currentTwist' = ZeroTwist
  /\ isMoving' = FALSE
  /\ stopTimers' = IF rosMode /\ cmdVelPublisher
                   THEN InsertAll(stopTimers, BurstDelays)
                   ELSE stopTimers

(***************************************************************************)
(* Bookkeeping of what has been observed (not program state).              *)
(***************************************************************************)
Job(kind, pc, side, rem, a, b, c, d) ==
  [kind |-> kind, pc |-> pc, side |-> side, rem |-> TimerDelay(rem),
   a |-> a, b |-> b, c |-> c, d |-> d, age |-> 0, started |-> FALSE, stopped |-> FALSE]

\* No pattern job has ended yet.
NoDone == [job |-> Job("none", 0, 0, 0, 0, 0, 0, 0), complete |-> FALSE]

\* The job ended, with or without pattern_movement_complete.
Done(job, complete) == [job |-> job, complete |-> complete]

SilenceCap == MaxSilence * PublishPeriodMs

BurstCap == StopAttempts + 1

env == <<calls, clientDue>>

ClientPeriodMs == 10 * PublishPeriodMs

\* The client is at a call instant and has a call left (a bound of the
\* model, not of the code).
CallRoom == clientDue = 0 /\ calls < MaxCalls

\* Room for one more burst of timeouts (a bound of the model, not of the code).
BurstRoom == Len(stopTimers) + StopAttempts <= MaxStopBursts * StopAttempts

\* The events a method sends with io.emit before it returns, when it does
\* not return early.
Emits(op) ==
  CASE op \in {"moveInCircle", "moveInTriangle", "moveInDiamond"}
         -> {"pattern_movement_start", "movement_update"}
    [] op = "moveInLove" -> {"pattern_movement_start"}
    [] op = "stopPattern" -> {"movement_update", "pattern_movement_stopped"}
    [] OTHER -> {"movement_update"}

\* An external call returns: op is its name, ok what it returned, accepted
\* whether it took effect, twist the twist it asked for.
Called(op, ok, accepted, kind, twist) ==
  /\ lastCall' = op
  /\ result' = ok
  /\ stopsInRow' = IF op = "stop" THEN Min(stopsInRow + 1, 2) ELSE 0
  /\ lastExt' = IF accepted THEN [op |-> kind, twist |-> twist] ELSE lastExt
  /\ burst' = IF accepted THEN 0 ELSE burst
  /\ burstMoving' = IF accepted THEN FALSE ELSE burstMoving
  /\ sendFailed' = IF accepted THEN FALSE ELSE sendFailed
  /\ lastDone' = IF accepted THEN NoDone ELSE lastDone
  /\ emitted' = IF accepted THEN Emits(op) ELSE {}
  /\ silence' = IF isMoving' THEN silence ELSE 0
  /\ UNCHANGED services

\* A timer callback ran; sent is whether the transport received a twist,
\* ticked whether the publisher interval ticked, threw whether its send to
\* the transport threw, done the job that ended last.
Fired(sent, twist, ticked, threw, done) ==
  /\ lastCall' = "none"
  /\ UNCHANGED <<result, lastExt>>
  /\ stopsInRow' = 0
  /\ burst' = IF sent /\ lastExt.op = "stop" THEN Min(burst + 1, BurstCap) ELSE burst
  /\ burstMoving' = (burstMoving \/ (sent /\ lastExt.op = "stop" /\ TwistMoving(twist)))
  /\ silence' = IF isMoving' /\ ~ticked THEN silence ELSE 0
  /\ sendFailed' = IF ticked THEN threw ELSE sendFailed
  /\ lastDone' = done
  /\ emitted' = {}
  /\ UNCHANGED services

(***************************************************************************)
(* initializeROS: backend selection at construction.                       *)
(***************************************************************************)
\* The steps of initializeROS leave the controller's motion state alone.
BootStep ==
  /\ lastCall' = "none"
  /\ stopsInRow' = 0
  /\ emitted' = {}
  /\ UNCHANGED <<result, lastExt, silence, burst, burstMoving, sendFailed, lastDone>>
  /\ UNCHANGED <<rosMasterUri, ctl, jobs, env, services>>

\* A fallback that leaves the controller disconnected.
initializeSimulationModeOffline ==
  /\ UNCHANGED isConnected
  /\ rosMode' = FALSE
  /\ batteryData' = TRUE
  /\ odomData' = TRUE

initializeSimulationMode ==
  /\ isConnected' = TRUE
  /\ rosMode' = FALSE
  /\ batteryData' = TRUE
  /\ odomData' = TRUE

\* The catch block of initializeROS: log, then fall back to simulation.
InitializeROSFails ==
  /\ initPc' = "sim"
  /\ initializeSimulationMode
  /\ waitTimer' = -1
  /\ UNCHANGED <<cmdVelPublisher, testTimer>>

\* The end of the try block: ROS mode, and the test publish 2000 ms later.
InitializeROSSucceeds ==
  /\ initPc' = "ros"
  /\ cmdVelPublisher' = TRUE
  /\ isConnected' = TRUE
  /\ rosMode' = TRUE
  /\ testTimer' = TimerDelay(TestPublishDelayMs)
  /\ waitTimer' = -1
  /\ UNCHANGED <<batteryData, odomData>>

\* initializeROS goes on to the await at pc.
BootGoes(pc) ==
  /\ initPc' = pc
  /\ UNCHANGED <<waitTimer, batteryData, odomData, isConnected, rosMode,
                 cmdVelPublisher, testTimer>>

\* The check that no ROS environment is there.  ROS_MASTER_URI has been
\* forced to a value before, so CMAKE_PREFIX_PATH and ROS_PACKAGE_PATH do
\* not matter.
EnvMissing == rosMasterUri = "unset"

\* rosnodejs is loaded ("loaded"), cannot be loaded ("missing") or has no
\* initNode function ("broken").  Once loaded: the environment check, the
\* initNode check, then init method 1.
RosnodejsLoaded(how) ==
  IF how = "missing" THEN InitializeROSFails
  ELSE IF EnvMissing
       THEN /\ initPc' = "sim"
            /\ initializeSimulationMode
            /\ UNCHANGED <<waitTimer, cmdVelPublisher, testTimer>>
  ELSE IF how = "broken" THEN InitializeROSFails
  ELSE BootGoes("init1")

LoadOutcomes == {"loaded", "missing", "broken"}

\* How a probe run by exec ends: killed by "timeout 10s", a non-zero exit,
\* or exit 0 with nothing or with a listing on stdout.
ExecOutcomes == {"timeout", "nonzero", "empty", "listed"}

\* The callback's error is null.
ExecOk(outcome) == outcome \in {"empty", "listed"}

\* exec("timeout 10s rosnode list") calls back.
RosnodeListSettles(outcome) ==
  /\ initPc = "rosnode"
  /\ IF ExecOk(outcome) THEN BootGoes("rostopic") ELSE InitializeROSFails
  /\ BootStep

\* exec("timeout 10s rostopic list") calls back; on success require("rosnodejs")
\* follows at once, and the dynamic import if require throws.
RostopicListSettles(outcome, required) ==
  /\ initPc = "rostopic"
  /\ IF ~ExecOk(outcome) THEN InitializeROSFails
     ELSE IF required = "missing" THEN BootGoes("import")
     ELSE RosnodejsLoaded(required)
  /\ BootStep

\* await import("rosnodejs") settles.
ImportSettles(imported) ==
  /\ initPc = "import"
  /\ RosnodejsLoaded(imported)
  /\ BootStep

RegistrationWaitMs == 3000

InitMethods == 3

\* await rosnodejs.initNode(...) of init method m settles: on success the
\* registration wait starts, on failure the next method is tried, and the
\* failure of the last one is thrown.
InitNodeSettles(m, ok) ==
  /\ m \in 1..InitMethods
  /\ initPc = <<"init1", "init2", "init3">>[m]
  /\ IF ok
     THEN /\ initPc' = "wait"
          /\ waitTimer' = TimerDelay(RegistrationWaitMs)
          /\ UNCHANGED <<batteryData, odomData, isConnected, rosMode, cmdVelPublisher,
                         testTimer>>
     ELSE IF m < InitMethods THEN BootGoes(<<"init1", "init2", "init3">>[m + 1])
     ELSE InitializeROSFails
  /\ BootStep

CmdVelTopics == 4

\* The registration wait is over: nh.advertise is tried on each cmd_vel
\* topic in turn (accepts[k] is whether it succeeds on topic k) until one
\* succeeds.
RegistrationWaitDone(accepts) ==
  /\ initPc = "wait"
  /\ waitTimer = 0
  /\ IF \E k \in 1..CmdVelTopics : accepts[k]
     THEN InitializeROSSucceeds
     ELSE InitializeROSFails
  /\ BootStep

\* The boot test publish: publishTwist(0, 0, 0, 0, 0, 0) in a try block.
TestPublish ==
  /\ testTimer = 0
  /\ testTimer' = -1
  /\ publishTwist(Fin(0), Fin(0), Fin(0), Fin(0), Fin(0), Fin(0))
  /\ Fired(FALSE, ZeroTwist, FALSE, FALSE, lastDone)
  /\ UNCHANGED <<rosMasterUri, initPc, waitTimer, batteryData, odomData, isConnected,
                 rosMode, cmdVelPublisher, jobs, env>>

(***************************************************************************)
(* The timers of the publisher loop and of the stop burst.                 *)
(***************************************************************************)
\* A tick that gives the loop up when its publish throws.
PublisherTickAborts(i, delivered) ==
  /\ i \in 1..Len(pubIntervals)
  /\ pubIntervals[i] = 0
  /\ delivered \/ (rosMode /\ cmdVelPublisher)
  /\ LET rearmed == [pubIntervals EXCEPT ![i] = TimerDelay(PublishPeriodMs)]
     IN  IF ~isMoving \/ ~delivered
         THEN /\ pubIntervals' = IF publishInterval # 0
                                 THEN RemoveAt(rearmed, publishInterval)
                                 ELSE rearmed
              /\ publishInterval' = 0
         ELSE /\ pubIntervals' = rearmed
              /\ UNCHANGED publishInterval
  /\ UNCHANGED <<currentTwist, isMoving, stopTimers>>
  /\ Fired(delivered /\ (cmdVelPublisher \/ ~rosMode), currentTwist, TRUE, ~delivered,
           lastDone)
  /\ UNCHANGED <<boot, jobs, env>>

\* A tick that falls back to simulation when its publish throws.
PublisherTickFallsBack(i, delivered) ==
  /\ i \in 1..Len(pubIntervals)
  /\ pubIntervals[i] = 0
  /\ delivered \/ (rosMode /\ cmdVelPublisher)
  /\ LET rearmed == [pubIntervals EXCEPT ![i] = TimerDelay(PublishPeriodMs)]
     IN  IF ~isMoving
         THEN /\ pubIntervals' = IF publishInterval # 0
                                 THEN RemoveAt(rearmed, publishInterval)
                                 ELSE rearmed
              /\ publishInterval' = 0
         ELSE /\ pubIntervals' = rearmed
              /\ UNCHANGED publishInterval
  /\ UNCHANGED <<currentTwist, isMoving, stopTimers>>
  /\ Fired(delivered /\ (cmdVelPublisher \/ ~rosMode), currentTwist, TRUE, ~delivered,
           lastDone)
  /\ rosMode' = (rosMode /\ delivered)
  /\ UNCHANGED <<rosMasterUri, initPc, waitTimer, batteryData, odomData, isConnected,
                 cmdVelPublisher, testTimer, jobs, env>>

\* One tick of publisher interval i.  In ROS mode the publish may throw
\* (delivered = FALSE); the catch logs it and the tick goes on.
PublisherTick(i, delivered) ==
  /\ i \in 1..Len(pubIntervals)
  /\ pubIntervals[i] = 0
  /\ delivered \/ (rosMode /\ cmdVelPublisher)
  /\ LET rearmed == [pubIntervals EXCEPT ![i] = TimerDelay(PublishPeriodMs)]
     IN  IF ~isMoving
         THEN /\ pubIntervals' = IF publishInterval # 0
                                 THEN RemoveAt(rearmed, publishInterval)
                                 ELSE rearmed
              /\ publishInterval' = 0
         ELSE /\ pubIntervals' = rearmed
              /\ UNCHANGED publishInterval
  /\ UNCHANGED <<currentTwist, isMoving, stopTimers>>
  /\ Fired(delivered /\ (cmdVelPublisher \/ ~rosMode), currentTwist, TRUE, ~delivered,
           lastDone)
  /\ UNCHANGED <<boot, jobs, env>>

\* One timeout of stop()'s burst: cmdVelPublisher.publish(stopTwist) in a try.
StopBurstFire(delivered) ==
  /\ stopTimers # << >>
  /\ Head(stopTimers) = 0
  /\ stopTimers' = Tail(stopTimers)
  /\ UNCHANGED <<currentTwist, isMoving, publishInterval, pubIntervals>>
  /\ Fired(delivered, ZeroTwist, FALSE, FALSE, lastDone)
  /\ UNCHANGED <<boot, jobs, env>>

(***************************************************************************)
(* The movement commands.                                                  *)
(***************************************************************************)
DefaultSpeed == Fin(200)

DefaultAngularSpeed == Fin(500)

MoveCalled(op, lx, ly, lz, ax, ay, az) ==
  /\ CallRoom
  /\ calls' = calls + 1
  /\ publishTwist(lx, ly, lz, ax, ay, az)
  /\ Called(op, publishTwistResult, isConnected, "move",
            ParsedTwist(lx, ly, lz, ax, ay, az))
  /\ UNCHANGED <<boot, jobs, clientDue>>

moveForward(speed) ==
  MoveCalled("moveForward", Default(speed, DefaultSpeed),
             Fin(0), Fin(0), Fin(0), Fin(0), Fin(0))

moveBackward(speed) ==
  MoveCalled("moveBackward", Neg(Default(speed, DefaultSpeed)),
             Fin(0), Fin(0), Fin(0), Fin(0), Fin(0))

turnLeft(angularSpeed) ==
  MoveCalled("turnLeft", Fin(0), Fin(0), Fin(0), Fin(0), Fin(0),
             Default(angularSpeed, DefaultAngularSpeed))

turnRight(angularSpeed) ==
  MoveCalled("turnRight", Fin(0), Fin(0), Fin(0), Fin(0), Fin(0),
             Neg(Default(angularSpeed, DefaultAngularSpeed)))

\* customMove that passes on linear_x and angular_z only.
customMovePlanar(lx, ly, lz, ax, ay, az) ==
  MoveCalled("customMove",
             OrZero(parseFloat(lx)), Fin(0), Fin(0), Fin(0), Fin(0),
             OrZero(parseFloat(Default(az, Fin(0)))))

customMove(lx, ly, lz, ax, ay, az) ==
  MoveCalled("customMove",
             OrZero(parseFloat(lx)),
             OrZero(parseFloat(Default(ly, Fin(0)))),
             OrZero(parseFloat(Default(lz, Fin(0)))),
             OrZero(parseFloat(Default(ax, Fin(0)))),
             OrZero(parseFloat(Default(ay, Fin(0)))),
             OrZero(parseFloat(Default(az, Fin(0)))))

Stop ==
  /\ clientDue = 0
  /\ calls < MaxCalls \/ (lastCall = "stop" /\ stopsInRow < 2)
  /\ BurstRoom
  /\ calls' = IF calls < MaxCalls THEN calls + 1 ELSE calls
  /\ stop
  /\ Called("stop", TRUE, TRUE, "stop", ZeroTwist)
  /\ UNCHANGED <<boot, jobs, clientDue>>

\* emergencyStop guarded like the movement methods.
emergencyStopChecked ==
  /\ CallRoom
  /\ BurstRoom
  /\ calls' = calls + 1
  /\ IF isConnected THEN stop ELSE UNCHANGED ctl
  /\ Called("emergencyStop", isConnected, isConnected, "emergencyStop", ZeroTwist)
  /\ UNCHANGED <<boot, jobs, clientDue>>

emergencyStop ==
  /\ CallRoom
  /\ BurstRoom
  /\ calls' = calls + 1
  /\ stop
  /\ Called("emergencyStop", TRUE, TRUE, "emergencyStop", ZeroTwist)
  /\ UNCHANGED <<boot, jobs, clientDue>>

\* stop(), then pattern_movement_stopped is emitted, whatever patterns run.
stopPattern ==
  /\ CallRoom
  /\ BurstRoom
  /\ calls' = calls + 1
  /\ stop
  /\ Called("stopPattern", TRUE, TRUE, "stopPattern", ZeroTwist)
  /\ jobs' = [j \in 1..Len(jobs) |-> [jobs[j] EXCEPT !.stopped = TRUE]]
  /\ UNCHANGED <<boot, clientDue>>

\* The SIGINT handler: cleanup() clears the publisher interval and calls
\* stop(), whose burst is timeouts only; process.exit(0) follows at once and
\* discards every pending timer.  Nothing runs after it.
\* The methods declared async: a call returns a Promise of what the body
\* returns.
AsyncMethods == {"moveSquare", "moveInCircle", "moveInTriangle", "moveInLove",
                 "moveInDiamond"}

\* The success field of the response to the call that has just returned, as
\* res.json and socket.emit serialise it: the boolean a method returned, or
\* the empty object a Promise serialises to.
SuccessSent ==
  IF lastCall \in AsyncMethods
  THEN [k |-> "object", v |-> FALSE]
  ELSE [k |-> "boolean", v |-> result]

\* What getStatus returns, but for laser_available and timestamp.
getStatus ==
  [is_connected |-> isConnected,
   is_moving |-> isMoving,
   ros_mode |-> rosMode,
   current_twist |-> currentTwist,
   battery_available |-> batteryData,
   odometry_available |-> odomData]

Sigint ==
  /\ initPc # "exited"
  /\ initPc' = "exited"
  /\ currentTwist' = ZeroTwist
  /\ isMoving' = FALSE
  /\ publishInterval' = 0
  /\ pubIntervals' = << >>
  /\ stopTimers' = << >>
  /\ jobs' = << >>
  /\ testTimer' = -1
  /\ waitTimer' = -1
  /\ clientDue' = -1
  /\ Called("sigint", TRUE, TRUE, "sigint", ZeroTwist)
  /\ UNCHANGED <<rosMasterUri, batteryData, odomData, isConnected, rosMode,
                 cmdVelPublisher, calls>>

(***************************************************************************)
(* Arithmetic of the pattern generators, in thousandths.                   *)
(***************************************************************************)
PiMilli == 3142

\* a * b of two values in thousandths, rounded towards zero.
MulMilli(a, b) ==
  IF a * b >= 0 THEN (a * b) \div Unit ELSE -((-(a * b)) \div Unit)

\* 1000 * sin(2 pi k / 100) for k = 0..25.
SinQuarter ==
  <<0, 63, 125, 187, 249, 309, 368, 426, 482, 536, 588, 637, 685, 729, 771,
    809, 844, 876, 905, 930, 951, 969, 982, 992, 998, 1000>>

HeartSteps == 100

\* 1000 * sin(2 pi k / 100), any k >= 0.
Sin100(k) ==
  LET m == k % HeartSteps
  IN  IF m <= 25 THEN SinQuarter[m + 1]
      ELSE IF m <= 50 THEN SinQuarter[50 - m + 1]
      ELSE IF m <= 75 THEN -SinQuarter[m - 50 + 1]
      ELSE -SinQuarter[100 - m + 1]

Cos100(k) == Sin100(k + 25)

\* 1000 * sin(n) for n = 0..3 radians (the diamond's speed variation).
SinRad == <<0, 841, 909, 141>>

TriangleSpeed == 200

TriangleTurnAngle == 120

DiamondSpeed == 250

DiamondTurnAngle == 90

TurnMs == 1000

DiamondTurnMs == 800

SquarePauseMs == 1000

\* (turnAngle * Math.PI) / 180
TurnSpeed(angle) == (angle * PiMilli) \div 180

\* The twist of heart step k for a heart of the given size.
HeartLinear(size, k) ==
  MulMilli(MulMilli(size \div 10, Unit + Sin100(3 * k) \div 2), Cos100(k))

HeartAngular(size, k) ==
  MulMilli(MulMilli(size \div 10, Unit + Sin100(3 * k) \div 2),
           Sin100(k) + MulMilli(Sin100(3 * k), 300))

DiamondSideSpeed(side) ==
  MulMilli(DiamondSpeed, Unit + MulMilli(SinRad[side + 1], 200))

(***************************************************************************)
(* The pattern generators.  A job is a generator that still holds a        *)
(* pending timer: its kind, the step (pc, side) that timer will run, the   *)
(* ms until it is due, the values its closure captured (a, b, c, d), the   *)
(* ms since it started, and the lifecycle events emitted for it so far.    *)
(***************************************************************************)

Forward(speed) == publishTwist(Fin(speed), Fin(0), Fin(0), Fin(0), Fin(0), Fin(0))

Turn(speed) == publishTwist(Fin(0), Fin(0), Fin(0), Fin(0), Fin(0), Fin(speed))

\* A pattern method was called: rejected when not connected, else started
\* with its first timer pending.
\* start is whether the method emits
\* pattern_movement_start.
PatternCalled(op, job, twist, start) ==
  /\ jobs' = IF isConnected THEN Append(jobs, [job EXCEPT !.started = start]) ELSE jobs
  /\ calls' = calls + 1
  /\ Called(op, isConnected, isConnected, "pattern", twist)
  /\ UNCHANGED <<boot, clientDue>>

\* A circle whose deferred stop comes after half the duration.
moveInCircleHalf(radius, duration, clockwise) ==
  LET linearSpeed == (2 * PiMilli * radius) \div duration
      angularSpeed == (2 * PiMilli * Unit) \div duration
      az == IF clockwise THEN -angularSpeed ELSE angularSpeed
  IN  /\ CallRoom
      /\ publishTwist(Fin(linearSpeed), Fin(0), Fin(0), Fin(0), Fin(0), Fin(az))
      /\ PatternCalled("moveInCircle",
                       Job("circle", 1, 0, duration \div 2, duration, 0, 0, 0),
                       Twist(Fin(linearSpeed), Fin(0), Fin(0), Fin(0), Fin(0), Fin(az)),
                       TRUE)

moveInCircle(radius, duration, clockwise) ==
  LET linearSpeed == (2 * PiMilli * radius) \div duration
      angularSpeed == (2 * PiMilli * Unit) \div duration
      az == IF clockwise THEN -angularSpeed ELSE angularSpeed
  IN  /\ CallRoom
      /\ publishTwist(Fin(linearSpeed), Fin(0), Fin(0), Fin(0), Fin(0), Fin(az))
      /\ PatternCalled("moveInCircle",
                       Job("circle", 1, 0, duration, duration, 0, 0, 0),
                       Twist(Fin(linearSpeed), Fin(0), Fin(0), Fin(0), Fin(0), Fin(az)),
                       TRUE)

\* The deferred stop of a circle.
CircleTimeout(j) ==
  /\ j \in 1..Len(jobs)
  /\ jobs[j].kind = "circle"
  /\ jobs[j].rem = 0
  /\ stop
  /\ jobs' = RemoveAt(jobs, j)
  /\ Fired(FALSE, ZeroTwist, FALSE, FALSE,
           Done(jobs[j], TRUE))
  /\ UNCHANGED <<boot, env>>

moveInTriangle(sideLength, pauseDuration) ==
  LET moveDuration == (sideLength * Unit) \div TriangleSpeed
  IN  /\ CallRoom
      /\ Forward(TriangleSpeed)
      /\ PatternCalled("moveInTriangle",
                       Job("triangle", 1, 0, moveDuration, moveDuration, pauseDuration, 0, 0),
                       Twist(Fin(TriangleSpeed), Fin(0), Fin(0), Fin(0), Fin(0), Fin(0)),
                       TRUE)

\* The nine nested timeouts of a triangle: 1, 4, 7 stop; 2, 5, 8 turn;
\* 3, 6 move along the next side; 9 stops and completes.
TriangleTimeout(j) ==
  /\ j \in 1..Len(jobs)
  /\ jobs[j].kind = "triangle"
  /\ jobs[j].rem = 0
  /\ LET job == jobs[j]
         next(rem) == [jobs EXCEPT ![j] = [job EXCEPT !.pc = job.pc + 1,
                                                      !.rem = TimerDelay(rem)]]
     IN  CASE job.pc \in {1, 4, 7} -> stop /\ jobs' = next(job.b)
           [] job.pc \in {2, 5, 8} ->
                Turn(TurnSpeed(TriangleTurnAngle)) /\ jobs' = next(TurnMs)
           [] job.pc \in {3, 6} -> Forward(TriangleSpeed) /\ jobs' = next(job.a)
           [] OTHER -> stop /\ jobs' = RemoveAt(jobs, j)
  /\ Fired(FALSE, ZeroTwist, FALSE, FALSE,
           IF jobs[j].pc \in 1..8 THEN lastDone ELSE Done(jobs[j], TRUE))
  /\ UNCHANGED <<boot, env>>

moveInLove(size, duration) ==
  /\ CallRoom
  /\ UNCHANGED ctl
  /\ PatternCalled("moveInLove",
                   Job("love", 0, 0, duration \div HeartSteps, size,
                       duration \div HeartSteps, 0, 0),
                   currentTwist, TRUE)

\* A heart whose interval tests step > steps.
HeartIntervalOneMore(j) ==
  /\ j \in 1..Len(jobs)
  /\ jobs[j].kind = "love"
  /\ jobs[j].rem = 0
  /\ LET job == jobs[j]
     IN  IF job.pc > HeartSteps
         THEN stop /\ jobs' = RemoveAt(jobs, j)
         ELSE /\ publishTwist(Fin(HeartLinear(job.a, job.pc)), Fin(0), Fin(0),
                              Fin(0), Fin(0), Fin(HeartAngular(job.a, job.pc)))
              /\ jobs' = [jobs EXCEPT ![j] = [job EXCEPT !.pc = job.pc + 1,
                                                         !.rem = TimerDelay(job.b)]]
  /\ Fired(FALSE, ZeroTwist, FALSE, FALSE,
           IF jobs[j].pc > HeartSteps THEN Done(jobs[j], TRUE) ELSE lastDone)
  /\ UNCHANGED <<boot, env>>

\* One run of the heart's interval: the next step's twist, or after the
\* last step stop, complete and clearInterval.
HeartInterval(j) ==
  /\ j \in 1..Len(jobs)
  /\ jobs[j].kind = "love"
  /\ jobs[j].rem = 0
  /\ LET job == jobs[j]
     IN  IF job.pc >= HeartSteps
         THEN stop /\ jobs' = RemoveAt(jobs, j)
         ELSE /\ publishTwist(Fin(HeartLinear(job.a, job.pc)), Fin(0), Fin(0),
                              Fin(0), Fin(0), Fin(HeartAngular(job.a, job.pc)))
              /\ jobs' = [jobs EXCEPT ![j] = [job EXCEPT !.pc = job.pc + 1,
                                                         !.rem = TimerDelay(job.b)]]
  /\ Fired(FALSE, ZeroTwist, FALSE, FALSE,
           IF jobs[j].pc >= HeartSteps THEN Done(jobs[j], TRUE) ELSE lastDone)
  /\ UNCHANGED <<boot, env>>

DiamondSides == 4

moveInDiamond(sideLength, pauseDuration) ==
  LET moveDuration == (sideLength * Unit) \div DiamondSpeed
  IN  /\ CallRoom
      /\ Forward(DiamondSideSpeed(0))
      /\ PatternCalled("moveInDiamond",
                       Job("diamond", 1, 0, moveDuration, moveDuration, pauseDuration, 0, 0),
                       Twist(Fin(DiamondSideSpeed(0)), Fin(0), Fin(0), Fin(0), Fin(0), Fin(0)),
                       TRUE)

\* A diamond that turns left after every side.
DiamondTimeoutOneWay(j) ==
  /\ j \in 1..Len(jobs)
  /\ jobs[j].kind = "diamond"
  /\ jobs[j].rem = 0
  /\ LET job == jobs[j]
         next(pc, side, rem) == [jobs EXCEPT ![j] = [job EXCEPT !.pc = pc, !.side = side,
                                                                !.rem = TimerDelay(rem)]]
         dir == 1
     IN  CASE job.pc = 1 -> stop /\ jobs' = next(2, job.side, job.b)
           [] job.pc = 2 ->
                /\ Turn(TurnSpeed(DiamondTurnAngle) * dir)
                /\ jobs' = next(3, job.side, DiamondTurnMs)
           [] job.pc = 3 -> stop /\ jobs' = next(4, job.side + 1, job.b \div 2)
           [] OTHER ->
                IF job.side >= DiamondSides
                THEN stop /\ jobs' = RemoveAt(jobs, j)
                ELSE /\ Forward(DiamondSideSpeed(job.side))
                     /\ jobs' = next(1, job.side, job.a)
  /\ Fired(FALSE, ZeroTwist, FALSE, FALSE,
           IF jobs[j].pc \notin {1, 2, 3} /\ jobs[j].side >= DiamondSides
           THEN Done(jobs[j], TRUE) ELSE lastDone)
  /\ UNCHANGED <<boot, env>>

\* The four timeouts of each side of a diamond: 1 stops, 2 turns (left on
\* even sides, right on odd ones), 3 stops and counts the side, 4 runs
\* executeSide again, which moves along the next side or stops and completes.
DiamondTimeout(j) ==
  /\ j \in 1..Len(jobs)
  /\ jobs[j].kind = "diamond"
  /\ jobs[j].rem = 0
  /\ LET job == jobs[j]
         next(pc, side, rem) == [jobs EXCEPT ![j] = [job EXCEPT !.pc = pc, !.side = side,
                                                                !.rem = TimerDelay(rem)]]
         dir == IF job.side % 2 = 0 THEN 1 ELSE -1
     IN  CASE job.pc = 1 -> stop /\ jobs' = next(2, job.side, job.b)
           [] job.pc = 2 ->
                /\ Turn(TurnSpeed(DiamondTurnAngle) * dir)
                /\ jobs' = next(3, job.side, DiamondTurnMs)
           [] job.pc = 3 -> stop /\ jobs' = next(4, job.side + 1, job.b \div 2)
           [] OTHER ->
                IF job.side >= DiamondSides
                THEN stop /\ jobs' = RemoveAt(jobs, j)
                ELSE /\ Forward(DiamondSideSpeed(job.side))
                     /\ jobs' = next(1, job.side, job.a)
  /\ Fired(FALSE, ZeroTwist, FALSE, FALSE,
           IF jobs[j].pc \notin {1, 2, 3} /\ jobs[j].side >= DiamondSides
           THEN Done(jobs[j], TRUE) ELSE lastDone)
  /\ UNCHANGED <<boot, env>>

SquareSides == 4

moveSquare(sideLength, linearSpeed, angularSpeed) ==
  LET moveTime == (sideLength * Unit) \div linearSpeed
      turnTime == ((PiMilli * Unit) \div 2) \div angularSpeed
  IN  /\ CallRoom
      /\ Forward(linearSpeed)
      /\ PatternCalled("moveSquare",
                       Job("square", 1, 0, moveTime, moveTime, turnTime,
                           linearSpeed, angularSpeed),
                       Twist(Fin(linearSpeed), Fin(0), Fin(0), Fin(0), Fin(0), Fin(0)),
                       FALSE)

\* moveSquare resumes after one of its four awaits per side: 1 stops,
\* 2 turns right, 3 stops, 4 starts the next side or returns.
SquareResume(j) ==
  /\ j \in 1..Len(jobs)
  /\ jobs[j].kind = "square"
  /\ jobs[j].rem = 0
  /\ LET job == jobs[j]
         next(pc, side, rem) == [jobs EXCEPT ![j] = [job EXCEPT !.pc = pc, !.side = side,
                                                                !.rem = TimerDelay(rem)]]
     IN  CASE job.pc = 1 -> stop /\ jobs' = next(2, job.side, SquarePauseMs)
           [] job.pc = 2 -> Turn(-job.d) /\ jobs' = next(3, job.side, job.b)
           [] job.pc = 3 -> stop /\ jobs' = next(4, job.side, SquarePauseMs)
           [] OTHER ->
                IF job.side + 1 >= SquareSides
                THEN UNCHANGED ctl /\ jobs' = RemoveAt(jobs, j)
                ELSE /\ Forward(job.c)
                     /\ jobs' = next(1, job.side + 1, job.a)
  /\ Fired(FALSE, ZeroTwist, FALSE, FALSE,
           IF jobs[j].pc \notin {1, 2, 3} /\ jobs[j].side + 1 >= SquareSides
           THEN Done(jobs[j], FALSE) ELSE lastDone)
  /\ UNCHANGED <<boot, env>>

(***************************************************************************)
(* Time.                                                                   *)
(***************************************************************************)
\* The ms left on every pending timer.
Pending ==
  {pubIntervals[i] : i \in 1..Len(pubIntervals)}
    \cup {stopTimers[i] : i \in 1..Len(stopTimers)}
    \cup {jobs[j].rem : j \in 1..Len(jobs)}
    \cup (IF testTimer >= 0 THEN {testTimer} ELSE {})
    \cup (IF waitTimer >= 0 THEN {waitTimer} ELSE {})
    \cup (IF clientDue >= 0 THEN {clientDue} ELSE {})

NextDue == CHOOSE r \in Pending : \A q \in Pending : r <= q

\* The client is done at this instant: it comes back a period later, or
\* not at all once its calls are used up.
ClientWaits ==
  /\ clientDue = 0
  /\ clientDue' = IF calls < MaxCalls THEN ClientPeriodMs ELSE -1
  /\ UNCHANGED <<boot, ctl, jobs, calls, hist, services>>

\* Time passes until the next timer is due.
Elapse ==
  /\ Pending # {}
  /\ NextDue > 0
  /\ pubIntervals' = [i \in 1..Len(pubIntervals) |-> pubIntervals[i] - NextDue]
  /\ stopTimers' = [i \in 1..Len(stopTimers) |-> stopTimers[i] - NextDue]
  /\ jobs' = [j \in 1..Len(jobs) |-> [jobs[j] EXCEPT !.rem = jobs[j].rem - NextDue,
                                                    !.age = jobs[j].age + NextDue]]
  /\ testTimer' = IF testTimer >= 0 THEN testTimer - NextDue ELSE testTimer
  /\ waitTimer' = IF waitTimer >= 0 THEN waitTimer - NextDue ELSE waitTimer
  /\ clientDue' = IF clientDue >= 0 THEN clientDue - NextDue ELSE clientDue
  /\ silence' = IF isMoving THEN Min(silence + NextDue, SilenceCap) ELSE 0
  /\ lastCall' = "none"
  /\ stopsInRow' = 0
  /\ emitted' = {}
  /\ UNCHANGED <<rosMasterUri, initPc, batteryData, odomData, isConnected, rosMode,
                 cmdVelPublisher, currentTwist, isMoving, publishInterval, calls, result,
                 lastExt, burst, burstMoving, sendFailed, lastDone, services>>

(***************************************************************************)
(* The inputs the commands are tried with.                                 *)
(***************************************************************************)
SpeedArgs == {Undefined}

CustomArgs == {<<Fin(300), Fin(200)>>, <<Str(<<"x">>), Undefined>>}

CircleArgs == {<<Unit, 200, TRUE>>}

TriangleArgs == {<<10, 50>>}

LoveArgs == {<<Unit, 5000>>}

DiamondArgs == {<<25, 100>>}

SquareArgs == {<<20, 200, 5000>>}

\* The users of the Firebase project.
Uids == {"u1", "u2"}

ValidRoles == {"admin", "user", "moderator"}

\* The viewers that ask for the camera stream, one request each.
MaxViewers == 3

Viewers == 1..MaxViewers

\* The backup codes the user was issued and still holds.
IssuedCodes == {"c1", "c2"}

\* The POST /verify requests made with a backup code, one call each.
MaxVerifies == 3

Verifiers == 1..MaxVerifies

\* The controller once its constructor has returned: initializeROS has
\* forced ROS_MASTER_URI to a value and is at its first await.
MaxOtpCallers == 4

OtpCallers == 1..MaxOtpCallers

InitController ==
  /\ initPc = "rosnode"
  /\ waitTimer = -1
  /\ batteryData = FALSE
  /\ odomData = FALSE
  /\ isConnected = FALSE
  /\ rosMode = FALSE
  /\ cmdVelPublisher = FALSE
  /\ currentTwist = ZeroTwist
  /\ isMoving = FALSE
  /\ publishInterval = 0
  /\ pubIntervals = << >>
  /\ stopTimers = << >>
  /\ testTimer = -1
  /\ jobs = << >>
  /\ calls = 0
  /\ clientDue = 0
  /\ lastCall = "none"
  /\ result = TRUE
  /\ stopsInRow = 0
  /\ lastExt = [op |-> "none", twist |-> ZeroTwist]
  /\ silence = 0
  /\ burst = 0
  /\ burstMoving = FALSE
  /\ sendFailed = FALSE
  /\ lastDone = NoDone
  /\ emitted = {}
  /\ request = [channel |-> "none", route |-> "none", token |-> "none", otp |-> FALSE,
                stage |-> "idle", seq |-> 0]
  /\ customClaims = [u \in Uids |-> "user"]
  /\ roleCall = [route |-> "none", caller |-> "none", callerRole |-> "none",
                 uid |-> "none", role |-> "none"]
  /\ cameraProcess = 0
  /\ isStreaming = FALSE
  /\ ffmpeg = << >>
  /\ responses = [c \in Viewers |-> [stage |-> "none", open |-> FALSE]]
  /\ backupCodes = IssuedCodes
  /\ verifies = [r \in Verifiers |-> [pc |-> "idle", code |-> "none", read |-> {}]]
  /\ odomPosition = [x |-> Fin(0), y |-> Fin(0)]
  /\ odomVelocity = ZeroTwist
  /\ odomTicks = 0
  /\ otps = [exists |-> TRUE, attempts |-> 0, expired |-> FALSE]
  /\ emailVerified = FALSE
  /\ otpCalls = [r \in OtpCallers |-> [pc |-> "idle", guess |-> "none", status |-> 0]]
  /\ wrongCompared = 0
  /\ loggedOut = FALSE
  /\ cvInitialized = "pending"
  /\ streamingClients = [c \in Viewers |-> -1]
  /\ cvStreaming = FALSE
  /\ streamTimer = FALSE
  /\ captures = 0

\* A deployment with ROS_MASTER_URI set.
Init ==
  /\ rosMasterUri = "configured"
  /\ InitController

BootNext ==
  \/ \E outcome \in ExecOutcomes : RosnodeListSettles(outcome)
  \/ \E outcome \in ExecOutcomes, required \in LoadOutcomes :
       RostopicListSettles(outcome, required)
  \/ \E imported \in LoadOutcomes : ImportSettles(imported)
  \/ \E m \in 1..InitMethods, ok \in BOOLEAN : InitNodeSettles(m, ok)
  \/ \E accepts \in [1..CmdVelTopics -> BOOLEAN] : RegistrationWaitDone(accepts)

Next ==
  \/ BootNext
  \/ TestPublish
  \/ \E i \in 1..Len(pubIntervals), delivered \in BOOLEAN : PublisherTick(i, delivered)
  \/ \E delivered \in BOOLEAN : StopBurstFire(delivered)
  \/ Elapse
  \/ ClientWaits
  \/ \E speed \in SpeedArgs : moveForward(speed)
  \/ \E speed \in SpeedArgs : moveBackward(speed)
  \/ \E speed \in SpeedArgs : turnLeft(speed)
  \/ \E speed \in SpeedArgs : turnRight(speed)
  \/ \E a \in CustomArgs :
       customMove(a[1], Undefined, Undefined, Undefined, Undefined, a[2])
  \/ Stop
  \/ emergencyStop
  \/ stopPattern
  \/ Sigint
  \/ \E a \in CircleArgs : moveInCircle(a[1], a[2], a[3])
  \/ \E a \in TriangleArgs : moveInTriangle(a[1], a[2])
  \/ \E a \in LoveArgs : moveInLove(a[1], a[2])
  \/ \E a \in DiamondArgs : moveInDiamond(a[1], a[2])
  \/ \E a \in SquareArgs : moveSquare(a[1], a[2], a[3])
  \/ \E j \in 1..Len(jobs) : CircleTimeout(j)
  \/ \E j \in 1..Len(jobs) : TriangleTimeout(j)
  \/ \E j \in 1..Len(jobs) : HeartInterval(j)
  \/ \E j \in 1..Len(jobs) : DiamondTimeout(j)
  \/ \E j \in 1..Len(jobs) : SquareResume(j)

Spec == Init /\ [][Next]_vars

(***************************************************************************)
(* The inputs of publishTwist and customMove alone: every JavaScript value *)
(* of the bounded domain, passed to one call of a movement method.         *)
(***************************************************************************)
RECURSIVE StringsUpTo(_)
StringsUpTo(n) ==
  IF n = 0 THEN {<< >>}
  ELSE StringsUpTo(n - 1)
         \cup {Append(s, c) : s \in {u \in StringsUpTo(n - 1) : Len(u) = n - 1}, c \in Chars}

JSValues ==
  {Undefined, JsNull, NaN, Inf(1), Inf(-1), Fin(0), Fin(300), Fin(-200)}
    \cup {Str(s) : s \in StringsUpTo(MaxStrLen)}

\* The six arguments of a call that passes v in position pos and leaves
\* the others out.
ArgsWith(v, pos) == [i \in 1..6 |-> IF i = pos THEN v ELSE Undefined]

\* One call per behaviour: a call's outcome does not depend on the calls
\* before it.
ParseRoom == calls = 0

\* The numbers customMove is called with when all six arguments are given.
RoundTripValues == {Fin(0), Fin(300), Fin(200), Fin(-200), Inf(1)}

\* Any of them for linear_x and angular_z, zero or 0.3 for the other four.
RoundTripArgs ==
  {<<x, b[1], b[2], b[3], b[4], z>> :
     x \in RoundTripValues, z \in RoundTripValues, b \in [1..4 -> {Fin(0), Fin(300)}]}

NextParse ==
  \/ BootNext
  \/ Elapse
  \/ ClientWaits
  \/ \E v \in JSValues : ParseRoom /\ moveForward(v)
  \/ \E v \in JSValues : ParseRoom /\ moveBackward(v)
  \/ \E v \in JSValues : ParseRoom /\ turnLeft(v)
  \/ \E v \in JSValues : ParseRoom /\ turnRight(v)
  \/ \E v \in JSValues, pos \in 1..6 :
       LET a == ArgsWith(v, pos)
       IN  ParseRoom /\ customMove(a[1], a[2], a[3], a[4], a[5], a[6])
  \/ \E a \in RoundTripArgs :
       ParseRoom /\ customMove(a[1], a[2], a[3], a[4], a[5], a[6])

SpecParse == Init /\ [][NextParse]_vars

(***************************************************************************)
(* Who may command the robot.  A request arrives over HTTP, where the      *)
(* route's middleware chain runs before its handler, or as a socket        *)
(* message, whose handler runs at once.  verifyIdToken and the OTP store   *)
(* are outside the program: the request carries what they will answer,     *)
(* token for the Authorization header (none, one Firebase rejects, or a     *)
(* valid one) and otp for whether the token's email is OTP-verified.        *)
(***************************************************************************)
\* The routes under /api/move and /api/emergency_stop.
HttpRoutes == {"forward", "backward", "left", "right", "stop", "custom", "circle",
               "triangle", "love", "diamond", "square", "emergency_stop"}

\* The actions of a move_command message, and the emergency_stop message.
SocketActions == (HttpRoutes \ {"emergency_stop"}) \cup {"stop_pattern", "emergency_stop"}

\* The request has been answered, or its handler has made its call.
RequestOver == request.stage \in {"idle", "denied"} \/ request.seq < calls

\* express routes the request: /api/emergency_stop has no middleware, the
\* routes under /api/move have authenticateAndVerifyEmail.
HttpRequest(route, token, otp) ==
  /\ initPc # "exited"
  /\ RequestOver
  /\ calls < MaxCalls
  /\ request' = [channel |-> "http", route |-> route, token |-> token, otp |-> otp,
                 stage |-> IF route = "emergency_stop" THEN "handler" ELSE "token",
                 seq |-> calls]
  /\ UNCHANGED <<motion, roles, webcam, twoFactor, odometry, emailOtp, session, opencv>>

\* A connected socket sends move_command or emergency_stop: the handler
\* runs with no check of who sent it.
SocketMessage(action, token, otp) ==
  /\ initPc # "exited"
  /\ RequestOver
  /\ calls < MaxCalls
  /\ request' = [channel |-> "socket", route |-> action, token |-> token, otp |-> otp,
                 stage |-> "handler", seq |-> calls]
  /\ UNCHANGED <<motion, roles, webcam, twoFactor, odometry, emailOtp, session, opencv>>

\* 401 without a Bearer token or when verifyIdToken rejects it, else next().
authenticateFirebaseToken ==
  /\ request.stage = "token"
  /\ request' = [request EXCEPT !.stage = IF request.token = "valid" THEN "otp"
                                          ELSE "denied"]
  /\ UNCHANGED <<motion, roles, webcam, twoFactor, odometry, emailOtp, session, opencv>>

\* 403 unless otpService.isEmailVerified(email), else next(): the handler.
requireEmailVerification ==
  /\ request.stage = "otp"
  /\ request' = [request EXCEPT !.stage = IF request.otp THEN "handler" ELSE "denied"]
  /\ UNCHANGED <<motion, roles, webcam, twoFactor, odometry, emailOtp, session, opencv>>

\* The handler of the route or action is about to make its call.
Handles(route) ==
  /\ request.stage = "handler"
  /\ request.route = route
  /\ request.seq = calls

NextAccess ==
  \/ BootNext
  \/ Elapse
  \/ ClientWaits
  \/ \E route \in HttpRoutes, token \in {"none", "invalid", "valid"}, otp \in BOOLEAN :
       HttpRequest(route, token, otp)
  \/ \E action \in SocketActions, token \in {"none", "invalid", "valid"}, otp \in BOOLEAN :
       SocketMessage(action, token, otp)
  \/ authenticateFirebaseToken
  \/ requireEmailVerification
  \/ \E speed \in SpeedArgs : Handles("forward") /\ moveForward(speed)
  \/ \E speed \in SpeedArgs : Handles("backward") /\ moveBackward(speed)
  \/ \E speed \in SpeedArgs : Handles("left") /\ turnLeft(speed)
  \/ \E speed \in SpeedArgs : Handles("right") /\ turnRight(speed)
  \/ \E a \in CustomArgs :
       Handles("custom") /\ customMove(a[1], Undefined, Undefined, Undefined, Undefined, a[2])
  \/ Handles("stop") /\ Stop
  \/ Handles("emergency_stop") /\ emergencyStop
  \/ Handles("stop_pattern") /\ stopPattern
  \/ \E a \in CircleArgs : Handles("circle") /\ moveInCircle(a[1], a[2], a[3])
  \/ \E a \in TriangleArgs : Handles("triangle") /\ moveInTriangle(a[1], a[2])
  \/ \E a \in LoveArgs : Handles("love") /\ moveInLove(a[1], a[2])
  \/ \E a \in DiamondArgs : Handles("diamond") /\ moveInDiamond(a[1], a[2])
  \/ \E a \in SquareArgs : Handles("square") /\ moveSquare(a[1], a[2], a[3])

SpecAccess == Init /\ [][NextAccess]_vars

(***************************************************************************)
(* Role management: the routes under /api/auth.  A caller is a user with a *)
(* token that carries the user's current role claim, or sends no token.    *)
(* The body's role is one of the valid roles or something else.            *)
(***************************************************************************)
\* decodedToken.role of the caller's token.
TokenRole(caller) == IF caller = "none" THEN "none" ELSE customClaims[caller]

\* admin.auth().setCustomUserClaims(uid, {role}); stored says whether
\* Firebase accepted it.
setUserRole(route, caller, uid, role, stored) ==
  /\ roleCall' = [route |-> route, caller |-> caller, callerRole |-> TokenRole(caller),
                  uid |-> uid, role |-> role]
  /\ customClaims' = IF stored THEN [customClaims EXCEPT ![uid] = role] ELSE customClaims
  /\ UNCHANGED <<motion, request, webcam, twoFactor, odometry, emailOtp, session, opencv>>

\* POST /assign-role: no middleware.
assignRole(caller, uid, role, override, stored) ==
  /\ role \in ValidRoles
  /\ LET assignedRole == IF ~override /\ role \in {"admin", "moderator"} THEN "user"
                         ELSE role
     IN  setUserRole("assign-role", caller, uid, assignedRole, stored)

\* authenticateUser then requireAdmin.
AdminOnly(caller) == caller # "none" /\ TokenRole(caller) = "admin"

\* POST /update-role.
updateRole(caller, uid, role, stored) ==
  /\ AdminOnly(caller)
  /\ role \in ValidRoles
  /\ setUserRole("update-role", caller, uid, role, stored)

\* POST /promote-user: the user is looked up by email.
promoteUser(caller, uid, role, stored) ==
  /\ AdminOnly(caller)
  /\ role \in ValidRoles
  /\ setUserRole("promote-user", caller, uid, role, stored)

NextRoles ==
  \/ \E caller \in Uids \cup {"none"}, uid \in Uids, role \in ValidRoles \cup {"owner"},
        override \in BOOLEAN, stored \in BOOLEAN :
       assignRole(caller, uid, role, override, stored)
  \/ \E caller \in Uids \cup {"none"}, uid \in Uids, role \in ValidRoles \cup {"owner"},
        stored \in BOOLEAN :
       updateRole(caller, uid, role, stored)
  \/ \E caller \in Uids \cup {"none"}, uid \in Uids, role \in ValidRoles \cup {"owner"},
        stored \in BOOLEAN :
       promoteUser(caller, uid, role, stored)

SpecRoles == Init /\ [][NextRoles]_vars

(***************************************************************************)
(* The camera stream of routes/webcam.js.  A viewer's GET /stream passes   *)
(* two awaits (checkFFmpegAvailability, detectCameraDevices) and then      *)
(* startMjpegStream; the viewer's connection may close at any moment.  An  *)
(* FFmpeg process runs until it is killed, and exits some time after.      *)
(***************************************************************************)
\* A running FFmpeg process writes its frames to viewer c's response.
Receiving(c) == \E p \in 1..Len(ffmpeg) : ffmpeg[p].state = "running" /\ ffmpeg[p].res = c

\* The processes once stopCameraStream has run.
KilledCurrent ==
  IF cameraProcess # 0 /\ ffmpeg[cameraProcess].state = "running"
  THEN [ffmpeg EXCEPT ![cameraProcess].state = "killed"]
  ELSE ffmpeg

stopCameraStream ==
  /\ ffmpeg' = KilledCurrent
  /\ cameraProcess' = 0
  /\ isStreaming' = FALSE

\* stopCameraStream, spawn, the handlers, isStreaming = true.
startMjpegStream(c) ==
  /\ ffmpeg' = Append(KilledCurrent, [state |-> "running", res |-> c])
  /\ cameraProcess' = Len(ffmpeg) + 1
  /\ isStreaming' = TRUE

\* GET /stream arrives and awaits checkFFmpegAvailability.
StreamRequested(c) ==
  /\ responses[c].stage = "none"
  /\ responses' = [responses EXCEPT ![c] = [stage |-> "checking", open |-> TRUE]]
  /\ UNCHANGED <<cameraProcess, isStreaming, ffmpeg, motion, request, roles, twoFactor,
                 odometry, emailOtp, session, opencv>>

\* checkFFmpegAvailability settles: 503, or on to detectCameraDevices.
FfmpegChecked(c, available) ==
  /\ responses[c].stage = "checking"
  /\ responses' = [responses EXCEPT ![c].stage = IF available THEN "detecting"
                                                   ELSE "answered"]
  /\ UNCHANGED <<cameraProcess, isStreaming, ffmpeg, motion, request, roles, twoFactor,
                 odometry, emailOtp, session, opencv>>

\* detectCameraDevices settles: 404, or startMjpegStream(res, devices[0]).
DevicesDetected(c, found) ==
  /\ responses[c].stage = "detecting"
  /\ IF found
     THEN /\ startMjpegStream(c)
          /\ responses' = [responses EXCEPT ![c].stage = "streaming"]
     ELSE /\ responses' = [responses EXCEPT ![c].stage = "answered"]
          /\ UNCHANGED <<cameraProcess, isStreaming, ffmpeg>>
  /\ UNCHANGED <<motion, request, roles, twoFactor, odometry, emailOtp, session, opencv>>

\* The viewer's connection closes: the response emits "close" to the
\* listeners it has then, the one of startMjpegStream if that has run.
ViewerDisconnects(c) ==
  /\ responses[c].open
  /\ responses' = [responses EXCEPT ![c].open = FALSE]
  /\ IF responses[c].stage = "streaming"
     THEN stopCameraStream
     ELSE UNCHANGED <<cameraProcess, isStreaming, ffmpeg>>
  /\ UNCHANGED <<motion, request, roles, twoFactor, odometry, emailOtp, session, opencv>>

\* A killed FFmpeg process exits: its "close" handler runs.
FfmpegExits(p) ==
  /\ ffmpeg[p].state = "killed"
  /\ ffmpeg' = [ffmpeg EXCEPT ![p].state = "exited"]
  /\ isStreaming' = FALSE
  /\ UNCHANGED <<cameraProcess, responses, motion, request, roles, twoFactor,
                 odometry, emailOtp, session, opencv>>

NextWebcam ==
  \/ \E c \in Viewers : StreamRequested(c)
  \/ \E c \in Viewers, available \in BOOLEAN : FfmpegChecked(c, available)
  \/ \E c \in Viewers, found \in BOOLEAN : DevicesDetected(c, found)
  \/ \E c \in Viewers : ViewerDisconnects(c)
  \/ \E p \in 1..Len(ffmpeg) : FfmpegExits(p)

SpecWebcam == Init /\ [][NextWebcam]_vars

(***************************************************************************)
(* Backup codes of two-factor authentication.  POST /verify with a backup  *)
(* code calls verifyBackupCode, which awaits Firestore three times: the    *)
(* read of the user's document, the update of backupCodes and the write    *)
(* of the session.  Calls for the same user interleave at these awaits.    *)
(***************************************************************************)
\* POST /verify {backupCode}: verifyBackupCode starts and awaits the read.
VerifyRequested(r, code) ==
  /\ verifies[r].pc = "idle"
  /\ verifies' = [verifies EXCEPT ![r] = [pc |-> "get", code |-> code, read |-> {}]]
  /\ UNCHANGED backupCodes
  /\ UNCHANGED <<motion, request, roles, webcam, odometry, emailOtp, session, opencv>>

\* The document arrives: "Invalid backup code" is thrown unless the codes
\* read include the code, else the update of the filtered codes is sent.
DocumentRead(r) ==
  /\ verifies[r].pc = "get"
  /\ verifies' = [verifies EXCEPT ![r].read = backupCodes,
                                  ![r].pc = IF verifies[r].code \in backupCodes
                                            THEN "update" ELSE "failed"]
  /\ UNCHANGED backupCodes
  /\ UNCHANGED <<motion, request, roles, webcam, odometry, emailOtp, session, opencv>>

\* update({backupCodes: updatedCodes}) is applied.
CodesUpdated(r) ==
  /\ verifies[r].pc = "update"
  /\ backupCodes' = verifies[r].read \ {verifies[r].code}
  /\ verifies' = [verifies EXCEPT ![r].pc = "session"]
  /\ UNCHANGED <<motion, request, roles, webcam, odometry, emailOtp, session, opencv>>

\* The session is marked verified; verifyBackupCode returns true.
SessionMarked(r) ==
  /\ verifies[r].pc = "session"
  /\ verifies' = [verifies EXCEPT ![r].pc = "done"]
  /\ UNCHANGED backupCodes
  /\ UNCHANGED <<motion, request, roles, webcam, odometry, emailOtp, session, opencv>>

\* The calls of verifyBackupCode with the code that have returned true.
Successes(code) == {r \in Verifiers : verifies[r].pc = "done" /\ verifies[r].code = code}

NextTwoFactor ==
  \/ \E r \in Verifiers, code \in IssuedCodes \cup {"c0"} : VerifyRequested(r, code)
  \/ \E r \in Verifiers : DocumentRead(r)
  \/ \E r \in Verifiers : CodesUpdated(r)
  \/ \E r \in Verifiers : SessionMarked(r)

SpecTwoFactor == Init /\ [][NextTwoFactor]_vars

(***************************************************************************)
(* Simulated odometry: the second interval of startSimulation.  The        *)
(* interval's phase is not tied to the instants at which commands arrive,  *)
(* so a run of it is taken at any point between the controller's steps.    *)
(* Positions are exact; the rounding of the doubles is left out.           *)
(***************************************************************************)
MaxOdomTicks == 3

\* p + v * 0.1 on doubles, p in units of 1 / (10 * Unit) and v in 1 / Unit.
Advance(p, v) ==
  CASE p.k = "nan" \/ v.k = "nan" -> NaN
    [] p.k = "fin" /\ v.k = "fin" -> Fin(p.v + v.v)
    [] p.k = "inf" /\ v.k = "inf" -> (IF p.v = v.v THEN p ELSE NaN)
    [] p.k = "inf" -> p
    [] OTHER -> v

\* One run of the odometry interval.
OdomTick ==
  /\ initPc = "sim"
  /\ odomTicks < MaxOdomTicks
  /\ odomTicks' = odomTicks + 1
  /\ IF isMoving /\ ~rosMode
     THEN /\ odomPosition' = [x |-> Advance(odomPosition.x, currentTwist.lx),
                              y |-> Advance(odomPosition.y, currentTwist.ly)]
          /\ odomVelocity' = currentTwist
     ELSE UNCHANGED <<odomPosition, odomVelocity>>
  /\ UNCHANGED <<motion, request, roles, webcam, twoFactor, emailOtp, session, opencv>>

NextOdometry ==
  \/ BootNext
  \/ TestPublish
  \/ \E i \in 1..Len(pubIntervals), delivered \in BOOLEAN : PublisherTick(i, delivered)
  \/ \E delivered \in BOOLEAN : StopBurstFire(delivered)
  \/ Elapse
  \/ ClientWaits
  \/ \E speed \in SpeedArgs : moveForward(speed)
  \/ \E a \in CustomArgs :
       customMove(a[1], Undefined, Undefined, Undefined, Undefined, a[2])
  \/ Stop
  \/ OdomTick

SpecOdometry == Init /\ [][NextOdometry]_vars

(***************************************************************************)
(* Email OTP: POST /verify-otp and otpService.verifyOTP for one user with  *)
(* one stored OTP.  Each request is followed from one await to the next;   *)
(* Firestore serves the reads and writes one at a time, in any order.      *)
(***************************************************************************)
OtpMaxAttempts == 3

\* POST /verify-otp arrives: the body's email is the token's or not, the
\* code is the stored one or not.
VerifyOtpRequested(r, own, guess) ==
  /\ otpCalls[r].pc = "idle"
  /\ otpCalls' = [otpCalls EXCEPT ![r] =
                    IF own THEN [pc |-> "get", guess |-> guess, status |-> 0]
                    ELSE [pc |-> "done", guess |-> guess, status |-> 403]]
  /\ UNCHANGED <<otps, emailVerified, wrongCompared>>
  /\ UNCHANGED <<motion, request, roles, webcam, twoFactor, odometry, session, opencv>>

\* verifyOTP after its get(): the checks and the comparison on the snapshot.
verifyOTP(r) ==
  /\ otpCalls[r].pc = "get"
  /\ LET to == IF ~otps.exists THEN "done"
               ELSE IF otps.expired \/ otps.attempts >= OtpMaxAttempts THEN "delete"
               ELSE IF otpCalls[r].guess = "right" THEN "deleteUsed"
               ELSE "increment"
     IN  /\ otpCalls' = [otpCalls EXCEPT ![r].pc = to,
                                         ![r].status = IF to = "done" THEN 400 ELSE 0]
         /\ wrongCompared' = IF to = "increment" THEN wrongCompared + 1
                             ELSE wrongCompared
  /\ UNCHANGED <<otps, emailVerified>>
  /\ UNCHANGED <<motion, request, roles, webcam, twoFactor, odometry, session, opencv>>

\* The write a call of verifyOTP awaits: delete(), or update() with
\* FieldValue.increment(1), which fails on a document that is gone.
OtpWritten(r) ==
  /\ otpCalls[r].pc \in {"delete", "deleteUsed", "increment"}
  /\ otps' = IF otpCalls[r].pc = "increment"
             THEN (IF otps.exists THEN [otps EXCEPT !.attempts = @ + 1] ELSE otps)
             ELSE [otps EXCEPT !.exists = FALSE]
  /\ otpCalls' = [otpCalls EXCEPT
                    ![r].pc = IF otpCalls[r].pc = "deleteUsed" THEN "mark" ELSE "done",
                    ![r].status = CASE otpCalls[r].pc = "deleteUsed" -> 0
                                    [] otpCalls[r].pc = "increment" /\ ~otps.exists -> 500
                                    [] OTHER -> 400]
  /\ UNCHANGED <<emailVerified, wrongCompared>>
  /\ UNCHANGED <<motion, request, roles, webcam, twoFactor, odometry, session, opencv>>

markUserAsVerified(r) ==
  /\ otpCalls[r].pc = "mark"
  /\ emailVerified' = TRUE
  /\ loggedOut' = FALSE
  /\ otpCalls' = [otpCalls EXCEPT ![r].pc = "done", ![r].status = 200]
  /\ UNCHANGED <<otps, wrongCompared>>
  /\ UNCHANGED <<motion, request, roles, webcam, twoFactor, odometry, opencv>>

\* The stored OTP's expiresAt passes.
OtpExpires ==
  /\ otps.exists
  /\ ~otps.expired
  /\ otps' = [otps EXCEPT !.expired = TRUE]
  /\ UNCHANGED <<emailVerified, otpCalls, wrongCompared>>
  /\ UNCHANGED <<motion, request, roles, webcam, twoFactor, odometry, session, opencv>>

NextOtp ==
  \/ \E r \in OtpCallers, own \in BOOLEAN, guess \in {"right", "wrong"} :
       VerifyOtpRequested(r, own, guess)
  \/ \E r \in OtpCallers : verifyOTP(r)
  \/ \E r \in OtpCallers : OtpWritten(r)
  \/ \E r \in OtpCallers : markUserAsVerified(r)
  \/ OtpExpires

SpecOtp == Init /\ [][NextOtp]_vars

(***************************************************************************)
(* Sessions: POST /api/logout, the OTP routes and the movement requests of *)
(* one user.  requireEmailVerification reads user_sessions/<email>: the    *)
(* answer a request carries is the document's value when the middleware    *)
(* runs.  resetTwoFactorVerification writes twoFactorVerified, which no    *)
(* movement route reads; it is left out.                                   *)
(***************************************************************************)
\* POST /api/logout arrives: verifyToken, then req.session.destroy.
LogoutRequested(token) ==
  /\ initPc # "exited"
  /\ RequestOver
  /\ calls < MaxCalls
  /\ request' = [channel |-> "http", route |-> "logout", token |-> token, otp |-> FALSE,
                 stage |-> "logout", seq |-> calls]
  /\ UNCHANGED <<motion, roles, webcam, twoFactor, odometry, emailOtp, session, opencv>>

\* The destroy callback of a logout: resetEmailVerification when the token
\* gave an email; an error of the reset is logged and the logout goes on.
resetEmailVerification(ok) ==
  /\ request.stage = "logout"
  /\ request' = [request EXCEPT !.stage = "handler"]
  /\ emailVerified' = IF request.token = "valid" /\ ok THEN FALSE ELSE emailVerified
  /\ loggedOut' = (loggedOut \/ request.token = "valid")
  /\ UNCHANGED <<otps, otpCalls, wrongCompared>>
  /\ UNCHANGED <<motion, roles, webcam, twoFactor, odometry, opencv>>

\* POST /send-otp by the user once no verification is under way: storeOTP.
storeOTP ==
  /\ \A r \in OtpCallers : otpCalls[r].pc \in {"idle", "done"}
  /\ otps # [exists |-> TRUE, attempts |-> 0, expired |-> FALSE]
  /\ otps' = [exists |-> TRUE, attempts |-> 0, expired |-> FALSE]
  /\ UNCHANGED <<emailVerified, otpCalls, wrongCompared>>
  /\ UNCHANGED <<motion, request, roles, webcam, twoFactor, odometry, session, opencv>>

SessionRoutes == {"forward"}

SessionCallers == {1, 2}

NextSession ==
  \/ BootNext
  \/ Elapse
  \/ ClientWaits
  \/ \E route \in SessionRoutes, token \in {"none", "valid"}, otp \in BOOLEAN :
       HttpRequest(route, token, otp)
  \/ \E action \in SessionRoutes, token \in {"none", "valid"} :
       SocketMessage(action, token, FALSE)
  \/ authenticateFirebaseToken
  \/ request.otp = emailVerified /\ requireEmailVerification
  \/ \E speed \in SpeedArgs : Handles("forward") /\ moveForward(speed)
  \/ \E token \in {"none", "valid"} : LogoutRequested(token)
  \/ \E ok \in BOOLEAN : resetEmailVerification(ok)
  \/ Handles("logout") /\ Stop
  \/ storeOTP
  \/ \E r \in SessionCallers, guess \in {"right", "wrong"} :
       VerifyOtpRequested(r, TRUE, guess)
  \/ \E r \in SessionCallers : verifyOTP(r)
  \/ \E r \in SessionCallers : OtpWritten(r)
  \/ \E r \in SessionCallers : markUserAsVerified(r)

SpecSession == Init /\ [][NextSession]_vars

(***************************************************************************)
(* OpenCVWebcamService: the socket stream of frames read with OpenCV.      *)
(* Whether the camera opens is the environment's choice, and so is what    *)
(* each cap.read() of the stream loop gives.  The timeout of               *)
(* scheduleNextFrame runs at some point after it was set.                  *)
(***************************************************************************)
MaxCaptures == 4

Subscribed == {c \in Viewers : streamingClients[c] >= 0}

\* The constructor's initializeCamera.
initializeCamera(ok) ==
  /\ cvInitialized = "pending"
  /\ cvInitialized' = IF ok THEN "yes" ELSE "no"
  /\ UNCHANGED <<streamingClients, cvStreaming, streamTimer, captures>>
  /\ UNCHANGED <<motion, request, roles, webcam, twoFactor, odometry, emailOtp, session>>

\* startStreaming with the clients as they are after the caller's change and
\* with the timeout pending or not: unless it returns at once, it sets
\* isStreaming and runs streamLoop, which reads a frame, broadcasts it when
\* it is not empty and nothing threw, and calls scheduleNextFrame.
startStreaming(clients, pending, frame) ==
  IF cvStreaming \/ cvInitialized # "yes"
  THEN /\ streamingClients' = clients
       /\ streamTimer' = pending
       /\ UNCHANGED <<cvStreaming, captures>>
  ELSE /\ cvStreaming' = TRUE
       /\ IF \A c \in Viewers : clients[c] < 0
          THEN /\ streamingClients' = clients
               /\ streamTimer' = pending
               /\ UNCHANGED captures
          ELSE /\ streamingClients' =
                    IF frame = "image"
                    THEN [c \in Viewers |-> IF clients[c] >= 0 THEN clients[c] + 1
                                            ELSE clients[c]]
                    ELSE clients
               /\ streamTimer' = TRUE
               /\ captures' = captures + 1

\* start_opencv_stream from socket c.
addStreamingClient(c, frame) ==
  /\ cvInitialized # "pending"
  /\ captures < MaxCaptures
  /\ IF cvInitialized # "yes"
     THEN UNCHANGED <<streamingClients, cvStreaming, streamTimer, captures>>
     ELSE LET clients == [streamingClients EXCEPT ![c] = 0]
          IN  IF Cardinality({d \in Viewers : clients[d] >= 0}) = 1
              THEN startStreaming(clients, streamTimer, frame)
              ELSE /\ streamingClients' = clients
                   /\ UNCHANGED <<cvStreaming, streamTimer, captures>>
  /\ UNCHANGED cvInitialized
  /\ UNCHANGED <<motion, request, roles, webcam, twoFactor, odometry, emailOtp, session>>

\* stop_opencv_stream or disconnect of socket c; stopStreaming when the map
\* is empty afterwards.
removeStreamingClient(c) ==
  /\ cvInitialized # "pending"
  /\ streamingClients' = [streamingClients EXCEPT ![c] = -1]
  /\ IF Subscribed \subseteq {c} /\ cvStreaming
     THEN /\ cvStreaming' = FALSE
          /\ streamTimer' = FALSE
     ELSE UNCHANGED <<cvStreaming, streamTimer>>
  /\ UNCHANGED <<cvInitialized, captures>>
  /\ UNCHANGED <<motion, request, roles, webcam, twoFactor, odometry, emailOtp, session>>

\* The timeout set by scheduleNextFrame runs: startStreaming if isStreaming.
scheduleNextFrame(frame) ==
  /\ streamTimer
  /\ captures < MaxCaptures
  /\ IF cvStreaming
     THEN startStreaming(streamingClients, FALSE, frame)
     ELSE /\ streamTimer' = FALSE
          /\ UNCHANGED <<streamingClients, cvStreaming, captures>>
  /\ UNCHANGED cvInitialized
  /\ UNCHANGED <<motion, request, roles, webcam, twoFactor, odometry, emailOtp, session>>

Frames == {"image", "empty", "error"}

NextOpencv ==
  \/ \E ok \in BOOLEAN : initializeCamera(ok)
  \/ \E c \in Viewers, frame \in Frames : addStreamingClient(c, frame)
  \/ \E c \in Viewers : removeStreamingClient(c)
  \/ \E frame \in Frames : scheduleNextFrame(frame)

SpecOpencv == Init /\ [][NextOpencv]_vars

(***************************************************************************)
(* Backend selection on its own, in a deployment with or without           *)
(* ROS_MASTER_URI set, with one movement command and stop as the calls.    *)
(* Every await of initializeROS settles in the end, but for the one of     *)
(* init method 2: the exec probes run under "timeout 10s", init methods 1  *)
(* and 3 pass a timeout to initNode, init method 2 passes none.            *)
(***************************************************************************)
InitAnyEnv ==
  /\ rosMasterUri \in {"configured", "default"}
  /\ InitController

NextSelection ==
  \/ BootNext
  \/ TestPublish
  \/ \E i \in 1..Len(pubIntervals), delivered \in BOOLEAN : PublisherTick(i, delivered)
  \/ \E delivered \in BOOLEAN : StopBurstFire(delivered)
  \/ Elapse
  \/ ClientWaits
  \/ \E speed \in SpeedArgs : moveForward(speed)
  \/ Stop

SpecSelection ==
  /\ InitAnyEnv
  /\ [][NextSelection]_vars
  /\ WF_vars(\E outcome \in ExecOutcomes : RosnodeListSettles(outcome))
  /\ WF_vars(\E outcome \in ExecOutcomes, required \in LoadOutcomes :
       RostopicListSettles(outcome, required))
  /\ WF_vars(\E imported \in LoadOutcomes : ImportSettles(imported))
  /\ WF_vars(\E ok \in BOOLEAN : InitNodeSettles(1, ok))
  /\ WF_vars(\E ok \in BOOLEAN : InitNodeSettles(3, ok))
  /\ WF_vars(\E accepts \in [1..CmdVelTopics -> BOOLEAN] : RegistrationWaitDone(accepts))
  /\ WF_vars(Elapse)
  /\ WF_vars(ClientWaits)

(***************************************************************************)
(* The claims.                                                             *)
(***************************************************************************)
\* C1: after emergencyStop() the commanded twist stays zero and isMoving
\* stays false until the next external command, whatever pattern was in
\* flight: none of its timers runs a further phase.
C1_EmergencyStopHolds ==
  lastExt.op = "emergencyStop" => (currentTwist = ZeroTwist /\ ~isMoving)

\* C2: at most one pattern job holds pending timers once a call has
\* returned; pattern A then pattern B leaves none of A's.
C2_SingleJob == Len(jobs) <= 1

\* C3: after an accepted movement command the commanded twist is that
\* command's twist until the next external command.
C3_LastWriterWins == lastExt.op = "move" => currentTwist = lastExt.twist

\* C4: when stop() or stopPattern() returns, no timer of a pattern is
\* pending any more.
C4_CancelSynchronous == lastCall \in {"stop", "stopPattern"} => jobs = << >>

\* C5: while isMoving is true no full publisher period passes without a
\* publisher tick.
C5_PublishEveryPeriod == isMoving => silence <= PublishPeriodMs

\* C6: after stop() the transport receives at most 5 publishes, all of the
\* zero twist, and at least 1 once the burst is over, until the next call.
C6_BoundedStopBurst ==
  lastExt.op = "stop" =>
    /\ burst <= StopAttempts
    /\ ~burstMoving
    /\ (stopTimers = << >> => burst >= 1)

\* C7: after stop() twice in a row the state is that of one stop(): zero
\* twist, no active pattern, publisher loop not running.
C7_StopTwice ==
  stopsInRow = 2 =>
    /\ currentTwist = ZeroTwist
    /\ ~isMoving
    /\ publishInterval = 0
    /\ pubIntervals = << >>
    /\ jobs = << >>

\* C8: emergencyStop() can be called in every state (connected or not, ROS
\* or simulation); it returns true and leaves the zero twist, isMoving
\* false and no publisher interval.
C8_EmergencyStopAlways ==
  /\ (CallRoom /\ BurstRoom) => ENABLED emergencyStop
  /\ lastCall = "emergencyStop" =>
       /\ result
       /\ currentTwist = ZeroTwist
       /\ ~isMoving
       /\ publishInterval = 0
       /\ pubIntervals = << >>

C8_Witness ==
  /\ lastCall = "emergencyStop"
  /\ jobs # << >>
  /\ stopTimers # << >>

\* C9: isMoving is false exactly when all six components of currentTwist
\* are zero.
C9_MovingIffNonZero == isMoving <=> TwistMoving(currentTwist)

C9_Witness ==
  /\ isMoving
  /\ jobs # << >>
  /\ lastCall = "none"
  /\ currentTwist.az # Fin(0)

\* C10: every component of currentTwist is a finite number.
C10_TwistFinite == \A c \in Components : IsFinite(currentTwist[c])

\* C11: at most one publisher interval is alive, and a movement command
\* issued while the robot moves and the interval runs leaves the interval
\* and its next tick where they were.
C11_TimerNotRestarted ==
  /\ [](Len(pubIntervals) <= 1)
  /\ [][(/\ calls' = calls + 1
         /\ lastExt'.op = "move"
         /\ isMoving /\ isMoving'
         /\ pubIntervals # << >>) => pubIntervals' = pubIntervals]_vars

\* C12: when the process has exited on SIGINT in ROS mode, the transport
\* has received at least one zero twist since the signal.
C12_FinalStopPublished ==
  (initPc = "exited" /\ rosMode /\ cmdVelPublisher) => burst >= 1

\* C13: when the send of a movement command's twist threw, that command
\* returned false.
C13_SendFailureReported == (sendFailed /\ lastExt.op = "move") => ~result

\* C14: after a publisher tick whose publish threw, while isMoving is true
\* the interval is still alive, its next tick is at most one period away
\* and publishes again when due.
C14_LoopSurvivesFailure ==
  (sendFailed /\ isMoving) =>
    /\ publishInterval = 1
    /\ Len(pubIntervals) = 1
    /\ pubIntervals[1] <= PublishPeriodMs
    /\ pubIntervals[1] = 0 => ENABLED PublisherTick(1, TRUE)

C14_Witness == sendFailed /\ isMoving /\ pubIntervals = <<0>>

\* C15: a pattern job that has ended emitted pattern_movement_start and
\* exactly one of pattern_movement_complete and pattern_movement_stopped.
C15_PatternLifecycle ==
  lastDone.job.kind # "none" =>
    /\ lastDone.job.started
    /\ lastDone.complete # lastDone.job.stopped

\* C16: when a circle has ended and no other pattern runs, it emitted
\* pattern_movement_complete no earlier than duration ms after its start,
\* and since then the twist is zero and isMoving false (until the next call).
C16_CircleDuration ==
  (lastDone.job.kind = "circle" /\ jobs = << >>) =>
    /\ lastDone.complete
    /\ lastDone.job.age >= lastDone.job.a
    /\ currentTwist = ZeroTwist
    /\ ~isMoving

C16_Witness ==
  /\ lastDone.job.kind = "circle"
  /\ jobs = << >>
  /\ lastExt.op = "pattern"
  /\ lastCall = "none"
  /\ clientDue = -1

MotionOps ==
  {"moveForward", "moveBackward", "turnLeft", "turnRight", "customMove", "moveInCircle",
   "moveInTriangle", "moveInLove", "moveInDiamond", "moveSquare"}

\* C18: when backend selection has ended after a failure, the controller is
\* connected in simulation mode with its simulated snapshots, and a
\* movement command called then is accepted.
C18_FailureFallsBack ==
  initPc = "sim" =>
    /\ isConnected
    /\ ~rosMode
    /\ ~cmdVelPublisher
    /\ batteryData /\ odomData
    /\ lastCall \in MotionOps => result

C18_Witness ==
  /\ initPc = "sim"
  /\ lastCall = "moveForward"
  /\ result
  /\ isMoving

\* C19: once backend selection has ended in ROS mode or in simulation mode,
\* rosMode does not change any more and the selection is not made again.
C19_ModeDecidedOnce ==
  [][(initPc \in {"ros", "sim"}) =>
       (rosMode' = rosMode /\ initPc' \in {initPc, "exited"})]_vars

C19_Witness == initPc = "ros" /\ sendFailed /\ isMoving

\* C17: in a deployment without ROS_MASTER_URI the controller never is in
\* ROS mode, and once backend selection has ended it is in simulation mode
\* with a battery and an odometry snapshot.
C17_FallbackDeterminism ==
  rosMasterUri = "default" =>
    /\ ~rosMode
    /\ initPc \in {"ros", "sim"} => (initPc = "sim" /\ batteryData /\ odomData)

\* C20: backend selection ends, in ROS mode or in simulation mode.
C20_SelectionTerminates == <>(initPc \in {"ros", "sim"})

\* C21: while connected, customMove with six numbers followed at once by
\* getStatus gives a current_twist whose six components are the six
\* numbers, and is_moving is true exactly when one of them is not zero.
C21_RoundTrip ==
  [][(isConnected /\ lastCall' = "customMove" /\ calls' # calls)
       => \A a \in RoundTripArgs :
            customMove(a[1], a[2], a[3], a[4], a[5], a[6])
              => /\ getStatus'.current_twist = Twist(a[1], a[2], a[3], a[4], a[5], a[6])
                 /\ getStatus'.is_moving = (\E i \in 1..6 : a[i] # Fin(0))]_vars

\* The spec's case: customMove(0.3, 0, 0, 0, 0, 0.2) was accepted.
C21_Witness ==
  /\ lastCall = "customMove"
  /\ result
  /\ getStatus.current_twist = Twist(Fin(300), Fin(0), Fin(0), Fin(0), Fin(0), Fin(200))
  /\ getStatus.is_moving

\* C22: a pattern command called while the controller is not connected
\* reports the boolean false as its success to the caller.
C22_PatternRejectionReported ==
  (lastCall \in AsyncMethods /\ ~isConnected)
    => SuccessSent = [k |-> "boolean", v |-> FALSE]

\* C23: a movement or pattern command other than emergency stop reaches
\* the controller only for a request that carries a valid Firebase token
\* whose email is OTP-verified.
C23_CommandsAuthorised ==
  (lastCall \notin {"none", "emergencyStop", "sigint"} /\ request.seq + 1 = calls)
    => (request.token = "valid" /\ request.otp)

\* C24: a request to /assign-role from a caller without an admin token
\* calls setUserRole with the role "user" only.
C24_PublicRegistrationUserOnly ==
  (roleCall.route = "assign-role" /\ roleCall.callerRole # "admin")
    => roleCall.role = "user"

\* C25: every viewer whose stream was started and whose connection is
\* open is being sent frames, however many viewers there are and whichever
\* of them has disconnected.
C25_SharedStream ==
  \A c \in Viewers :
    (responses[c].stage = "streaming" /\ responses[c].open) => Receiving(c)

\* C26: once every viewer has disconnected and no stream request is still
\* being handled, no FFmpeg process is running and isStreaming is false.
C26_CleanedUp ==
  (\A c \in Viewers : ~responses[c].open /\ responses[c].stage \notin {"checking", "detecting"})
    => (~isStreaming /\ \A p \in 1..Len(ffmpeg) : ffmpeg[p].state # "running")

\* C27: a backup code makes at most one call of verifyBackupCode succeed,
\* and once a call with it has succeeded it is not among the stored codes.
C27_BackupCodeOnce ==
  \A code \in IssuedCodes :
    /\ Cardinality(Successes(code)) <= 1
    /\ Successes(code) # {} => code \notin backupCodes

\* C28: a connectivity probe that times out, exits non-zero or prints an
\* empty listing takes initializeROS to SimulationMode at once.
C28_ProbeFailureAborts ==
  [][\A outcome \in ExecOutcomes \ {"listed"} :
       (\/ RosnodeListSettles(outcome)
        \/ \E required \in LoadOutcomes : RostopicListSettles(outcome, required))
         => initPc' = "sim"]_vars

\* C29: a movement or pattern method called while isConnected is false
\* returns false, starts no timer, emits no event and leaves currentTwist
\* and isMoving as they were.
C29_RejectedWhileDisconnected ==
  [][(~isConnected /\ calls' # calls /\ lastCall' \in MotionOps)
       => /\ ~result'
          /\ emitted' = {}
          /\ UNCHANGED <<currentTwist, isMoving, publishInterval, pubIntervals,
                         stopTimers, jobs>>]_vars

\* A pattern method and a movement method were rejected during backend
\* selection.
C29_Witness ==
  /\ ~isConnected
  /\ calls = 2
  /\ lastCall = "moveInTriangle"
  /\ ~result
  /\ lastExt.op = "none"

\* C30: when the boot test publish fires after a movement command was
\* accepted in ROS mode, the commanded twist stays the user's twist and
\* isMoving stays true.
C30_TestPublishKeepsCommand ==
  [][(TestPublish /\ lastExt.op = "move" /\ currentTwist = lastExt.twist /\ isMoving)
       => (currentTwist' = currentTwist /\ isMoving')]_vars

\* C31: in a triangle that runs alone, the phase that follows a move along
\* a side is stop, pause, turn, stop, pause: the timeout that ends a turn
\* stops the robot.
C31_TriangleTurnEndsInStop ==
  [][(Len(jobs) = 1 /\ lastExt.op = "pattern" /\ TriangleTimeout(1)
        /\ NotZero(currentTwist.az))
       => currentTwist' = ZeroTwist]_vars

\* C32: a diamond that runs alone goes through, for each of its 4 sides,
\* move straight, stop, pause, turn, stop, pause, turning left after the
\* sides of even index and right after the odd ones; after the fourth side
\* it stops, emits pattern_movement_complete and holds no timer any more,
\* 4 * (moveDuration + pause + 800 + pause / 2) ms after its start.
C32_DiamondPhases ==
  /\ [](lastDone.job.kind = "diamond" =>
          /\ lastDone.complete
          /\ lastDone.job.side = DiamondSides
          /\ lastDone.job.age
               = DiamondSides * (lastDone.job.a + lastDone.job.b + DiamondTurnMs
                                  + lastDone.job.b \div 2))
  /\ [][(Len(jobs) = 1 /\ lastExt.op = "pattern" /\ DiamondTimeout(1))
          => LET job == jobs[1]
                 dir == IF job.side % 2 = 0 THEN 1 ELSE -1
             IN  CASE job.pc = 1 ->
                        /\ currentTwist' = ZeroTwist
                        /\ jobs'[1].rem = job.b
                   [] job.pc = 2 ->
                        /\ currentTwist'
                             = Twist(Fin(0), Fin(0), Fin(0), Fin(0), Fin(0),
                                     Fin(dir * TurnSpeed(DiamondTurnAngle)))
                        /\ jobs'[1].rem = DiamondTurnMs
                   [] job.pc = 3 ->
                        /\ currentTwist' = ZeroTwist
                        /\ jobs'[1].rem = job.b \div 2
                        /\ jobs'[1].side = job.side + 1
                   [] OTHER ->
                        IF job.side < DiamondSides
                        THEN /\ NotZero(currentTwist'.lx)
                             /\ ~NotZero(currentTwist'.az)
                             /\ jobs'[1].rem = job.a
                        ELSE /\ currentTwist' = ZeroTwist
                             /\ ~isMoving'
                             /\ jobs' = << >>
                             /\ lastDone'.complete]_vars

\* A diamond that ran alone has completed.
C32_Witness ==
  /\ lastDone.job.kind = "diamond"
  /\ lastDone.complete
  /\ lastExt.op = "pattern"
  /\ calls = 1
  /\ jobs = << >>
  /\ currentTwist = ZeroTwist

\* C33: a heart that runs alone sets one step twist per run of its
\* interval, duration / 100 ms apart, for the steps 0 to 99; the run after
\* that stops the robot, emits pattern_movement_complete and clears the
\* interval, so that the heart holds no timer any more.
C33_HeartSteps ==
  /\ [](lastDone.job.kind = "love" =>
          /\ lastDone.complete
          /\ lastDone.job.pc = HeartSteps
          /\ lastDone.job.age = (HeartSteps + 1) * lastDone.job.b)
  /\ [][(Len(jobs) = 1 /\ lastExt.op = "pattern" /\ HeartInterval(1))
          => LET job == jobs[1]
             IN  IF job.pc < HeartSteps
                 THEN /\ currentTwist'
                           = Twist(Fin(HeartLinear(job.a, job.pc)), Fin(0), Fin(0),
                                   Fin(0), Fin(0), Fin(HeartAngular(job.a, job.pc)))
                      /\ jobs'[1].pc = job.pc + 1
                      /\ jobs'[1].rem = job.b
                      /\ lastDone' = lastDone
                 ELSE /\ currentTwist' = ZeroTwist
                      /\ ~isMoving'
                      /\ jobs' = << >>
                      /\ lastDone'.complete]_vars

\* A heart that ran alone has completed.
C33_Witness ==
  /\ lastDone.job.kind = "love"
  /\ lastDone.complete
  /\ lastExt.op = "pattern"
  /\ calls = 1
  /\ jobs = << >>
  /\ currentTwist = ZeroTwist

\* C34: a run of the simulated odometry interval while the robot moves adds
\* the commanded linear velocity times 0.1 to the position and reports the
\* commanded twist as velocity; a run after the robot has stopped leaves the
\* position alone and reports zero linear and angular velocity; in ROS mode
\* no run changes the odometry.
C34_OdometryTracksTwist ==
  [][OdomTick =>
       IF rosMode THEN UNCHANGED <<odomPosition, odomVelocity>>
       ELSE IF isMoving
       THEN /\ odomPosition'.x = Advance(odomPosition.x, currentTwist.lx)
            /\ odomPosition'.y = Advance(odomPosition.y, currentTwist.ly)
            /\ odomVelocity' = currentTwist
       ELSE /\ odomPosition' = odomPosition
            /\ odomVelocity' = ZeroTwist]_vars

\* C35: at most three wrong codes are ever compared with one stored OTP,
\* whatever the interleaving of the requests, and the email is not marked
\* verified once three invalid attempts are recorded.
C35_ThreeGuesses ==
  /\ [](wrongCompared <= OtpMaxAttempts)
  /\ [][(emailVerified' /\ ~emailVerified) => otps.attempts < OtpMaxAttempts]_vars

\* C36: from a logout of the user until the next successful OTP
\* verification the server makes no movement call for a request: the only
\* call is the logout's own stop().
C36_NoMovementAfterLogout ==
  [][(loggedOut /\ loggedOut' /\ calls' # calls)
       => (request.route = "logout" /\ ~isMoving')]_vars

C38_StreamingIffLive ==
  isStreaming <=> (cameraProcess # 0 /\ ffmpeg[cameraProcess].state = "running")

=============================================================================
